---- MODULE Spec2Model ----
(***************************************************************************)
(* Gmail-Manager-MCP: the delete workflow of GmailClient (gmail-client.ts)  *)
(* and of the delete_emails tool handler (GmailMCPServer), with the         *)
(* confirmation-token store, the audit log, the retry executor and the      *)
(* batch scheduler.  Several invocations may be in flight at once; each     *)
(* action is one synchronous stretch of a handler, from one await to the    *)
(* next.                                                                    *)
(***************************************************************************)
EXTENDS Integers, Sequences, FiniteSets, TLC

(***************************************************************************)
(* Program constants                                                        *)
(***************************************************************************)
MAX_BATCH_SIZE == 50
FETCH_BATCH_SIZE == 50
RATE_LIMIT_DELAY == 2000
MAX_RETRY_ATTEMPTS == 3
RETRY_DELAY_BASE == 1000
TOKEN_TTL == 300000
LIST_CAP == 500
DEFAULT_MAX_DELETIONS == 100
PREVIEW_SIZE == 5

(***************************************************************************)
(* Bounds of the model                                                      *)
(***************************************************************************)
\* number of invocations (tool calls or client calls) in one behaviour
MaxCalls == 3

Calls == 1..MaxCalls
\* instants the clock is observed at (ms); a ticket issued at 0 expires at TOKEN_TTL
Instants == {0, TOKEN_TTL, TOKEN_TTL + 1}
\* sizes of the mailbox contents the gateway may hold
MailboxSizes == {0, 2, 52}
Queries == {"from:a", "from:b"}
\* ids the gateway files under spam or trash
SpamTrashIds == {2}

(***************************************************************************)
(* Optional values: <<>> is undefined, <<v>> is v                           *)
(***************************************************************************)
None == <<>>
Some(v) == <<v>>
OrDefault(o, d) == IF o = None THEN d ELSE o[1]

Min(a, b) == IF a < b THEN a ELSE b

RECURSIVE Pow2(_)
Pow2(n) == IF n = 0 THEN 1 ELSE 2 * Pow2(n - 1)

IdSeq(n) == [i \in 1..n |-> i]
Range(s) == {s[i] : i \in 1..Len(s)}

\* Array.prototype.slice(from, to) with 0-based from (inclusive), to (exclusive)
Slice(s, from, to) == SubSeq(s, from + 1, Min(to, Len(s)))

VARIABLES
  mailbox,            \* gateway: the ids held by the remote mailbox, in list order
  now,                \* Date.now()
  confirmationTokens, \* GmailClient.confirmationTokens: token -> {query, messageIds, expires}
  tokenCount,         \* number of tokens generateConfirmationToken has produced
  operationLogs,      \* GmailClient.operationLogs (in memory)
  logFile,            \* email-operations.log, one record per line
  disk,               \* whether writes to the log file can fail
  pc,                 \* per invocation: where it is suspended
  req,                \* per invocation: the call and its arguments
  exactCount,         \* per invocation: handleDeleteEmails' exactCount
  operation,          \* per invocation: deleteEmails' OperationLog object
  messageIds,         \* per invocation: the ids the batch run works on
  batch,              \* per invocation: processBatchDeletion's i, deletedCount, failedCount, errors
  submitted,          \* per invocation: the batches passed to gateway batchDelete, in order
  ret,                \* per invocation: what the GmailClient method returned or threw
  resp,               \* per invocation: the tool response of handleDeleteEmails
  tickets,            \* history: every ticket ever put into confirmationTokens
  logsView,           \* the array getOperationLogs handed to its caller last
  retry,              \* a direct run of retryWithBackoff: its inputs and its outcome
  timeline,           \* history, per invocation: what its batch run did, in order
  handlerFound,       \* per invocation: the messages of the search handleDeleteEmails made
  listCall,           \* per search or count invocation: its users.messages.list request and
                      \* what the gateway answered to it and to the metadata fetches
  fetch,              \* the metadata fetch loop of one search, step by step
  scan,               \* a run of findUnsubscribeLinks: its inputs and its outcome
  gatewayCall         \* one request of the client to the gateway: its call site and outcome

vars == <<mailbox, now, confirmationTokens, tokenCount, operationLogs, logFile, disk, pc, req,
          exactCount, operation, messageIds, batch, submitted, ret, resp, tickets, logsView,
          retry, timeline, handlerFound, listCall, fetch, scan, gatewayCall>>

(***************************************************************************)
(* Retry/backoff executor                                                   *)
(***************************************************************************)
\* the outcome of one invocation of a gateway operation
Ok == [ok |-> TRUE, code |-> 200, rateMsg |-> FALSE]
\* a rejection: its error's code, and whether its message contains 'Rate limit'
Fail(code, rateMsg) == [ok |-> FALSE, code |-> code, rateMsg |-> rateMsg]

\* what the successive invocations of one gateway operation answer; the last
\* answer repeats
Scripts == { <<Fail(429, FALSE), Ok>>, <<Fail(403, FALSE)>> }

Answer(script, k) == IF k <= Len(script) THEN script[k] ELSE script[Len(script)]

IsRateLimit(error) == error.code = 429 \/ error.rateMsg

\* a faulty variant: code 600 counts as a server error
IsServerError_through_600(error) == error.code >= 500 /\ error.code <= 600

IsServerError(error) == error.code >= 500 /\ error.code < 600

\* a faulty variant: one attempt fewer
LoopCondition_one_short(attempt, maxRetries) == attempt < maxRetries

\* for (let attempt = 0; attempt <= maxRetries; attempt++)
LoopCondition(attempt, maxRetries) == attempt <= maxRetries

\* a faulty variant: the delay grows linearly
Backoff_linear(attempt) == RETRY_DELAY_BASE * (attempt + 1)

\* RETRY_DELAY_BASE * Math.pow(2, attempt)
Backoff(attempt) == RETRY_DELAY_BASE * Pow2(attempt)

\* the for loop of retryWithBackoff from `attempt` on; waits are the sleeps made so far
RECURSIVE RetryLoop(_, _, _, _, _)
RetryLoop(script, maxRetries, attempt, waits, lastError) ==
  IF ~LoopCondition(attempt, maxRetries)
    THEN [ok |-> FALSE, error |-> lastError, invocations |-> attempt, waits |-> waits]
    ELSE LET r == Answer(script, attempt + 1) IN
         IF r.ok
           THEN [ok |-> TRUE, error |-> r, invocations |-> attempt + 1, waits |-> waits]
           ELSE IF IsRateLimit(r) \/ IsServerError(r)
             THEN RetryLoop(script, maxRetries, attempt + 1,
                            Append(waits, Backoff(attempt)), r)
             ELSE [ok |-> FALSE, error |-> r, invocations |-> attempt + 1, waits |-> waits]

retryWithBackoff(script) ==
  RetryLoop(script, MAX_RETRY_ATTEMPTS, 0, <<>>, Fail(0, FALSE))

\* inputs of a direct run of retryWithBackoff: the answers of the operation,
\* up to MaxScriptLen of them, and the maxRetries argument
MaxScriptLen == 4
RetryOutcomes ==
  {Ok, Fail(429, FALSE), Fail(403, TRUE), Fail(500, FALSE), Fail(599, FALSE),
   Fail(600, FALSE), Fail(403, FALSE), Fail(499, FALSE)}
RetryScripts == UNION {[1..n -> RetryOutcomes] : n \in 1..MaxScriptLen}
RetryLimits == 0..MAX_RETRY_ATTEMPTS

NoRetry == [ran |-> FALSE, script |-> <<>>, maxRetries |-> 0,
            result |-> [ok |-> FALSE, error |-> Fail(0, FALSE), invocations |-> 0,
                        waits |-> <<>>]]

(***************************************************************************)
(* Remote mailbox gateway                                                   *)
(***************************************************************************)
\* whether the gateway's query language selects item id for the filter
FilterSelects(query, id) == query = "from:a" \/ id % 2 = 1

\* a faulty variant: the exclusion clauses are always appended
SearchQuery_always_excludes(query, includeSpamTrash) ==
  [filter |-> query, excludeSpam |-> TRUE, excludeTrash |-> TRUE]

\* the q parameter sent to users.messages.list
SearchQuery(query, includeSpamTrash) ==
  [filter |-> query, excludeSpam |-> ~includeSpamTrash, excludeTrash |-> ~includeSpamTrash]

GatewayMatches(q, id) ==
  /\ FilterSelects(q.filter, id)
  /\ (q.excludeSpam \/ q.excludeTrash) => id \notin SpamTrashIds

\* every id of the mailbox mb the query q matches, in list order
Matching(mb, q) == LET Test(id) == GatewayMatches(q, id) IN SelectSeq(mb, Test)

\* users.messages.list: at most maxResults ids
ListMessages(mb, q, maxResults) == Slice(Matching(mb, q), 0, maxResults)

\* resultSizeEstimate is an estimate: exact, one over, or far over
EstimateKinds == {"exact", "over", "far"}
FarEstimate == 120
ResultSizeEstimate(n, kind) ==
  CASE kind = "exact" -> n
    [] kind = "over" -> n + 1
    [] OTHER -> FarEstimate

\* which of the listed ids' metadata fetches (users.messages.get through the
\* retry executor) are rejected
DropKinds == {"none", "first"}
Rejected(ids, kind) == IF kind = "first" /\ Len(ids) > 0 THEN {ids[1]} ELSE {}

\* users.messages.batchDelete: the ids leave the mailbox
BatchDelete(mb, ids) == LET Keep(id) == id \notin Range(ids) IN SelectSeq(mb, Keep)

\* what the collaborators answer during one searchEmails call
SearchEnvs == [auth : BOOLEAN, list : Scripts, estimate : EstimateKinds, drop : DropKinds]
\* the same for a caller that does not read totalResults
ListEnvs == {env \in SearchEnvs : env.estimate = "exact"}

(***************************************************************************)
(* GmailClient.searchEmails                                                 *)
(***************************************************************************)
\* a faulty variant: the list request asks for as many as the caller did
ListLimit_uncapped(maxResults) == maxResults

\* Math.min(maxResults, 500)
ListLimit(maxResults) == Min(maxResults, LIST_CAP)

\* the users.messages.list request of searchEmails
ListRequest(query, maxResults, includeSpamTrash) ==
  [q |-> SearchQuery(query, includeSpamTrash), maxResults |-> ListLimit(maxResults)]

\* the users.messages.list request of countEmails
CountListRequest(query, includeSpamTrash) ==
  [q |-> SearchQuery(query, includeSpamTrash), maxResults |-> 1]

\* no list request was sent
NoListCall ==
  [sent |-> FALSE, request |-> [q |-> SearchQuery("", FALSE), maxResults |-> 0],
   answered |-> FALSE, messages |-> <<>>, resultSizeEstimate |-> 0, rejected |-> {}]

\* the list request of one call, the response to it if there was one, and the
\* listed ids whose metadata fetch was rejected
ListCall(mb, request, env) ==
  IF ~env.auth THEN NoListCall
  ELSE IF ~retryWithBackoff(env.list).ok
    THEN [NoListCall EXCEPT !.sent = TRUE, !.request = request]
  ELSE
    LET messages == ListMessages(mb, request.q, request.maxResults)
    IN [sent |-> TRUE, request |-> request, answered |-> TRUE, messages |-> messages,
        resultSizeEstimate |-> ResultSizeEstimate(Len(Matching(mb, request.q)), env.estimate),
        rejected |-> Rejected(messages, env.drop)]

Thrown(msg) == [ok |-> FALSE, messages |-> <<>>, totalResults |-> 0, error |-> msg]

\* a faulty variant: an empty list keeps the estimate of the list response
searchEmails_empty_keeps_estimate(mb, query, maxResults, includeSpamTrash, env) ==
  IF ~env.auth THEN Thrown("Token refresh failed")
  ELSE IF ~retryWithBackoff(env.list).ok THEN Thrown("Failed to search emails")
  ELSE
    LET searchQuery == SearchQuery(query, includeSpamTrash)
        messages == ListMessages(mb, searchQuery, Min(maxResults, LIST_CAP))
        totalResults == ResultSizeEstimate(Len(Matching(mb, searchQuery)), env.estimate)
        Fulfilled(id) == id \notin Rejected(messages, env.drop)
    IN [ok |-> TRUE, messages |-> SelectSeq(messages, Fulfilled),
        totalResults |-> totalResults, error |-> ""]

\* a faulty variant: the total is the number of messages fetched
searchEmails_total_of_fetched(mb, query, maxResults, includeSpamTrash, env) ==
  IF ~env.auth THEN Thrown("Token refresh failed")
  ELSE IF ~retryWithBackoff(env.list).ok THEN Thrown("Failed to search emails")
  ELSE
    LET searchQuery == SearchQuery(query, includeSpamTrash)
        messages == ListMessages(mb, searchQuery, ListLimit(maxResults))
        Fulfilled(id) == id \notin Rejected(messages, env.drop)
    IN [ok |-> TRUE, messages |-> SelectSeq(messages, Fulfilled),
        totalResults |-> Len(SelectSeq(messages, Fulfilled)), error |-> ""]

\* a faulty variant: one rejected metadata fetch fails the search
searchEmails_fails_on_rejection(mb, query, maxResults, includeSpamTrash, env) ==
  IF ~env.auth THEN Thrown("Token refresh failed")
  ELSE IF ~retryWithBackoff(env.list).ok THEN Thrown("Failed to search emails")
  ELSE
    LET searchQuery == SearchQuery(query, includeSpamTrash)
        messages == ListMessages(mb, searchQuery, ListLimit(maxResults))
        totalResults == ResultSizeEstimate(Len(Matching(mb, searchQuery)), env.estimate)
    IN IF Len(messages) = 0
         THEN [ok |-> TRUE, messages |-> <<>>, totalResults |-> 0, error |-> ""]
         ELSE IF Rejected(messages, env.drop) # {}
           THEN Thrown("Failed to search emails")
           ELSE [ok |-> TRUE, messages |-> messages, totalResults |-> totalResults,
                 error |-> ""]

searchEmails(mb, query, maxResults, includeSpamTrash, env) ==
  IF ~env.auth THEN Thrown("Token refresh failed")
  ELSE IF ~retryWithBackoff(env.list).ok THEN Thrown("Failed to search emails")
  ELSE
    LET searchQuery == SearchQuery(query, includeSpamTrash)
        messages == ListMessages(mb, searchQuery, ListLimit(maxResults))
        totalResults == ResultSizeEstimate(Len(Matching(mb, searchQuery)), env.estimate)
        Fulfilled(id) == id \notin Rejected(messages, env.drop)
    IN IF Len(messages) = 0
         THEN [ok |-> TRUE, messages |-> <<>>, totalResults |-> 0, error |-> ""]
         ELSE [ok |-> TRUE, messages |-> SelectSeq(messages, Fulfilled),
               totalResults |-> totalResults, error |-> ""]

(***************************************************************************)
(* GmailClient.countEmails                                                  *)
(***************************************************************************)
countEmails(mb, query, includeSpamTrash, env) ==
  IF ~env.auth THEN [ok |-> FALSE, count |-> 0, error |-> "Token refresh failed"]
  ELSE IF ~retryWithBackoff(env.list).ok
    THEN [ok |-> FALSE, count |-> 0, error |-> "Failed to count emails"]
  ELSE
    LET searchQuery == SearchQuery(query, includeSpamTrash)
    IN [ok |-> TRUE,
        count |-> ResultSizeEstimate(Len(Matching(mb, searchQuery)), env.estimate),
        error |-> ""]

(***************************************************************************)
(* Requests                                                                 *)
(***************************************************************************)
\* number of invocations that run the delete workflow (delete_emails tool
\* calls and direct deleteEmails calls); the others redeem tickets
MaxDeletes == 1

\* tokens a caller may present: those that can be issued (before, while and
\* after they are in the store)
Tokens == 1..MaxDeletes

ToolArgs(q, dryRun, maxDeletions, requireConfirmation, includeSpamTrash) ==
  [query |-> q, dryRun |-> dryRun, maxDeletions |-> maxDeletions,
   requireConfirmation |-> requireConfirmation, includeSpamTrash |-> includeSpamTrash]

\* the arguments objects the delete_emails tool is called with
ToolRequests ==
  { ToolArgs("from:a", None, None, None, None),
    ToolArgs("from:b", Some(FALSE), None, None, None),
    ToolArgs("from:a", Some(TRUE), Some(1), None, None),
    ToolArgs("from:a", Some(FALSE), None, Some(FALSE), Some(TRUE)),
    ToolArgs("from:a", Some(FALSE), Some(1), Some(FALSE), None) }

DeleteArgs(q, dryRun, maxDeletions) ==
  [query |-> q, dryRun |-> dryRun, maxDeletions |-> maxDeletions]

\* the argument lists GmailClient.deleteEmails is called with directly
DeleteRequests ==
  { DeleteArgs("from:a", None, None),
    DeleteArgs("from:b", Some(TRUE), Some(1)),
    DeleteArgs("from:a", Some(FALSE), None) }

\* a faulty variant: dryRun defaults to false
HandlerParams_dryRun_defaults_false(args) ==
  [query |-> args.query,
   dryRun |-> OrDefault(args.dryRun, FALSE),
   maxDeletions |-> OrDefault(args.maxDeletions, DEFAULT_MAX_DELETIONS),
   requireConfirmation |-> OrDefault(args.requireConfirmation, TRUE),
   includeSpamTrash |-> OrDefault(args.includeSpamTrash, FALSE)]

\* a faulty variant: requireConfirmation defaults to false
HandlerParams_confirmation_defaults_false(args) ==
  [query |-> args.query,
   dryRun |-> OrDefault(args.dryRun, TRUE),
   maxDeletions |-> OrDefault(args.maxDeletions, DEFAULT_MAX_DELETIONS),
   requireConfirmation |-> OrDefault(args.requireConfirmation, FALSE),
   includeSpamTrash |-> OrDefault(args.includeSpamTrash, FALSE)]

\* const { query, dryRun = true, maxDeletions = 100, requireConfirmation = true,
\*         includeSpamTrash = false } = args
HandlerParams(args) ==
  [query |-> args.query,
   dryRun |-> OrDefault(args.dryRun, TRUE),
   maxDeletions |-> OrDefault(args.maxDeletions, DEFAULT_MAX_DELETIONS),
   requireConfirmation |-> OrDefault(args.requireConfirmation, TRUE),
   includeSpamTrash |-> OrDefault(args.includeSpamTrash, FALSE)]

\* a faulty variant: the dryRun argument is not honoured
DeleteParams_dryRun_ignored(args) ==
  [query |-> args.query,
   dryRun |-> FALSE,
   maxDeletions |-> OrDefault(args.maxDeletions, DEFAULT_MAX_DELETIONS)]

\* deleteEmails(query, dryRun = true, maxDeletions = 100)
DeleteParams(args) ==
  [query |-> args.query,
   dryRun |-> OrDefault(args.dryRun, TRUE),
   maxDeletions |-> OrDefault(args.maxDeletions, DEFAULT_MAX_DELETIONS)]

SearchArgs(q, maxResults, includeSpamTrash) ==
  [query |-> q, maxResults |-> maxResults, includeSpamTrash |-> includeSpamTrash]

\* the argument lists GmailClient.searchEmails is called with directly
OverCap == LIST_CAP + 1
SearchRequests ==
  { SearchArgs("from:a", None, None),
    SearchArgs("from:b", Some(1), Some(TRUE)),
    SearchArgs("from:a", Some(OverCap), Some(TRUE)) }

\* searchEmails(query, maxResults = 100, includeSpamTrash = false)
SearchParams(args) ==
  [query |-> args.query,
   maxResults |-> OrDefault(args.maxResults, 100),
   includeSpamTrash |-> OrDefault(args.includeSpamTrash, FALSE)]

CountArgs(q, includeSpamTrash) == [query |-> q, includeSpamTrash |-> includeSpamTrash]

\* the argument lists GmailClient.countEmails is called with directly
CountRequests ==
  { CountArgs("from:a", None),
    CountArgs("from:b", Some(TRUE)),
    CountArgs("from:a", Some(TRUE)) }

\* countEmails(query, includeSpamTrash = false)
CountParams(args) ==
  [query |-> args.query, includeSpamTrash |-> OrDefault(args.includeSpamTrash, FALSE)]

NoArgs == [query |-> ""]
NoReq == [kind |-> "none", args |-> NoArgs]

\* the arguments the invocation's deleteEmails call receives: the caller's, or
\* those handleDeleteEmails passes on
ClientArgs(r) ==
  IF r.kind = "tool"
    THEN LET p == HandlerParams(r.args)
         IN [query |-> p.query, dryRun |-> Some(p.dryRun), maxDeletions |-> Some(p.maxDeletions)]
    ELSE r.args

(***************************************************************************)
(* Values of the workflow                                                   *)
(***************************************************************************)
\* const operation: OperationLog = { operation: 'delete', query, dryRun, success: false }
NewOperation(query, dryRun) ==
  [operation |-> "delete", query |-> query, dryRun |-> dryRun, success |-> FALSE,
   count |-> None, error |-> None, confirmationToken |-> None]
NoOperation == NewOperation("", FALSE)

NoBatch == [i |-> 0, deletedCount |-> 0, failedCount |-> 0, errors |-> <<>>]

\* what a GmailClient method returned (an EmailDeletionResult) or threw
\* (or, for searchEmails and countEmails, the EmailSearchResult or the number)
NoRet == [status |-> "none", deletedCount |-> 0, failedCount |-> 0, errors |-> <<>>,
          confirmationToken |-> None, error |-> "", messages |-> <<>>, totalResults |-> 0]
Returned(deletedCount, failedCount, errors, token) ==
  [NoRet EXCEPT !.status = "returned", !.deletedCount = deletedCount,
                !.failedCount = failedCount, !.errors = errors,
                !.confirmationToken = token]
\* searchEmails returned { messages, totalResults }
Found(messages, totalResults) ==
  [NoRet EXCEPT !.status = "returned", !.messages = messages,
                !.totalResults = totalResults]
\* countEmails returned a number
Counted(count) == [NoRet EXCEPT !.status = "returned", !.totalResults = count]
Threw(msg) == [NoRet EXCEPT !.status = "threw", !.error = msg]

\* the tool response of handleDeleteEmails: which message it is and the values
\* its text names
NoResp == [kind |-> "none", isError |-> FALSE, exactCount |-> 0, maxDeletions |-> 0,
           preview |-> <<>>, previewCount |-> 0, deletedCount |-> 0, failedCount |-> 0,
           errors |-> <<>>, confirmationToken |-> None]
Response(kind, isError) == [NoResp EXCEPT !.kind = kind, !.isError = isError]

\* the metadata fetch loop has not begun
NoFetch == [pc |-> "idle", messages |-> <<>>, i |-> 0, inFlight |-> {}, rejected |-> {},
            detailedMessages |-> <<>>, paces |-> 0]

\* findUnsubscribeLinks has not run
NoScan == [ran |-> FALSE, query |-> "", verifyLinks |-> FALSE, fetched |-> <<>>,
           payloads |-> <<>>, status |-> "none", links |-> <<>>]

\* no request to the gateway has been made
NoGatewayCall == [ran |-> FALSE, site |-> "", script |-> <<>>,
                  result |-> [ok |-> FALSE, error |-> Fail(0, FALSE), invocations |-> 0,
                              waits |-> <<>>]]

\* an array in the hands of a caller: its elements, and whether it is the
\* client's own operationLogs array (shared) or another array
NoView == [handed |-> FALSE, shared |-> FALSE, items |-> <<>>]

\* the state after construction, with a mailbox of one of the given sizes
StartFrom(sizes) ==
  /\ mailbox \in {IdSeq(n) : n \in sizes}
  /\ now = 0
  /\ confirmationTokens = <<>>
  /\ tokenCount = 0
  /\ operationLogs = <<>>
  /\ logFile = <<>>
  /\ pc = [c \in Calls |-> "new"]
  /\ req = [c \in Calls |-> NoReq]
  /\ exactCount = [c \in Calls |-> 0]
  /\ operation = [c \in Calls |-> NoOperation]
  /\ messageIds = [c \in Calls |-> <<>>]
  /\ batch = [c \in Calls |-> NoBatch]
  /\ submitted = [c \in Calls |-> <<>>]
  /\ ret = [c \in Calls |-> NoRet]
  /\ resp = [c \in Calls |-> NoResp]
  /\ tickets = <<>>
  /\ logsView = NoView
  /\ retry = NoRetry
  /\ timeline = [c \in Calls |-> <<>>]
  /\ handlerFound = [c \in Calls |-> <<>>]
  /\ listCall = [c \in Calls |-> NoListCall]
  /\ fetch = NoFetch
  /\ scan = NoScan
  /\ gatewayCall = NoGatewayCall

Start == StartFrom(MailboxSizes)

\* the log file can always be written
Init == Start /\ disk = "healthy"
\* writes to the log file may fail
InitFailing == Start /\ disk \in {"healthy", "failing"}

\* mailboxes whose ids outside spam and trash fill up to MaxChunks batches
\* exactly, or leave one id over
MaxChunks == 2
BatchSizes ==
  {0, 1} \cup UNION {{k * MAX_BATCH_SIZE + Cardinality(SpamTrashIds),
                      k * MAX_BATCH_SIZE + Cardinality(SpamTrashIds) + 1} : k \in 1..MaxChunks}
InitBatch == StartFrom(BatchSizes) /\ disk \in {"healthy", "failing"}

\* whether an appendFileSync succeeds
WriteOutcomes == IF disk = "healthy" THEN {TRUE} ELSE BOOLEAN

(***************************************************************************)
(* Audit log                                                                *)
(***************************************************************************)
\* logOperation: push onto operationLogs, then appendFileSync, which throws
\* when the write fails (written = FALSE)
logOperation(logs, file, op, written) ==
  [logs |-> Append(logs, op),
   file |-> IF written THEN Append(file, op) ELSE file,
   threw |-> ~written]

\* the catch block of deleteEmails: the operation object is marked failed and
\* logged (again).  pushed says that the try block's logOperation has already
\* pushed this same object, which the assignments then change in place.
CatchAndLog(logs, file, op, msg, pushed, written) ==
  LET failed == [op EXCEPT !.success = FALSE, !.error = Some(msg)]
      seen == IF pushed THEN [logs EXCEPT ![Len(logs)] = failed] ELSE logs
      l == logOperation(seen, file, failed, written)
  IN [logs |-> l.logs, file |-> l.file,
      ret |-> IF l.threw THEN Threw("appendFileSync failed")
                         ELSE Threw("Failed to delete emails")]

\* a faulty variant: the client's own array is handed out
getOperationLogs_own_array(logs) == [handed |-> TRUE, shared |-> TRUE, items |-> logs]

\* getOperationLogs: return [...this.operationLogs], a new array of the same
\* records
getOperationLogs(logs) == [handed |-> TRUE, shared |-> FALSE, items |-> logs]

\* what a caller may do to an array it holds: drop its last element, or push
\* a record of its own
CallerRecord == [NewOperation("forged", FALSE) EXCEPT !.success = TRUE]
ArrayEdits(items) ==
  {Append(items, CallerRecord)} \cup
  (IF Len(items) > 0 THEN {SubSeq(items, 1, Len(items) - 1)} ELSE {})

(***************************************************************************)
(* Confirmation-token store                                                 *)
(***************************************************************************)
\* Map.set
MapSet(m, k, v) == [x \in DOMAIN m \cup {k} |-> IF x = k THEN v ELSE m[x]]
\* Map.delete
MapDelete(m, k) == [x \in DOMAIN m \ {k} |-> m[x]]

\* generateConfirmationToken: two Math.random strings; taken to be a token no
\* earlier call produced
generateConfirmationToken(count) == count + 1

\* a faulty variant: the entry expires at once
Ticket_without_ttl(query, ids, t) == [query |-> query, messageIds |-> ids, expires |-> t]

\* the entry deleteEmails stores for a dry run
Ticket(query, ids, t) == [query |-> query, messageIds |-> ids, expires |-> t + TOKEN_TTL]

(***************************************************************************)
(* handleDeleteEmails: the response built from deleteEmails' result         *)
(***************************************************************************)
ToolResponse(params, count, result) ==
  IF result.status = "threw"
    THEN Response("Error", TRUE)
    ELSE IF params.dryRun
      THEN [Response("DryRunComplete", FALSE) EXCEPT !.exactCount = count]
      ELSE [Response("Completed", FALSE) EXCEPT
              !.deletedCount = result.deletedCount,
              !.failedCount = result.failedCount,
              !.errors = result.errors]

\* an invocation starts once the one before it has
CanStart(c) == pc[c] = "new" /\ (IF c = 1 THEN TRUE ELSE pc[c - 1] # "new")
DeleteBudget == Cardinality({d \in Calls : req[d].kind \in {"tool", "delete"}}) < MaxDeletes

\* a GmailClient method ends: result is what it returned or threw
EndCall(c, r, result) ==
  /\ pc' = [pc EXCEPT ![c] = "done"]
  /\ req' = [req EXCEPT ![c] = r]
  /\ ret' = [ret EXCEPT ![c] = result]
  /\ resp' = IF r.kind = "tool"
               THEN [resp EXCEPT ![c] = ToolResponse(HandlerParams(r.args),
                                                     exactCount[c], result)]
               ELSE resp
  /\ UNCHANGED exactCount
  /\ operation' = [operation EXCEPT ![c] = NoOperation]
  /\ messageIds' = [messageIds EXCEPT ![c] = <<>>]
  /\ batch' = [batch EXCEPT ![c] = NoBatch]

(***************************************************************************)
(* handleDeleteEmails up to its call of deleteEmails                        *)
(***************************************************************************)
\* a faulty variant: the comparison is off by one
OverLimit_off_by_one(count, maxDeletions) == count > maxDeletions + 1

\* the safety check: if (exactCount > maxDeletions)
OverLimit(count, maxDeletions) == count > maxDeletions

\* a faulty variant: confirmation is never asked for
NeedsConfirmation_never(p) == FALSE

\* if (!dryRun && requireConfirmation)
NeedsConfirmation(p) == ~p.dryRun /\ p.requireConfirmation

\* handleDeleteEmails called with one of the given arguments objects, its
\* search answered in one of the given ways
HandleDelete(c, requests, envs) ==
  /\ CanStart(c)
  /\ DeleteBudget
  /\ \E args \in requests, env \in envs :
       LET r == [kind |-> "tool", args |-> args]
           p == HandlerParams(args)
           searchResult == searchEmails(mailbox, p.query, p.maxDeletions + 1,
                                        p.includeSpamTrash, env)
           count == searchResult.totalResults
           answer ==
             IF ~searchResult.ok THEN Response("Error", TRUE)
             ELSE IF count = 0 THEN Response("NoEmails", FALSE)
             ELSE IF OverLimit(count, p.maxDeletions)
               THEN [Response("Rejected", TRUE) EXCEPT
                       !.exactCount = count, !.maxDeletions = p.maxDeletions]
             ELSE IF NeedsConfirmation(p)
               THEN [Response("ConfirmationRequired", TRUE) EXCEPT
                       !.exactCount = count,
                       !.preview = Slice(searchResult.messages, 0, PREVIEW_SIZE),
                       !.previewCount = Min(PREVIEW_SIZE, count)]
             ELSE NoResp
       IN /\ req' = [req EXCEPT ![c] = r]
          /\ exactCount' = [exactCount EXCEPT ![c] = count]
          /\ handlerFound' = [handlerFound EXCEPT ![c] = searchResult.messages]
          /\ IF answer # NoResp
               THEN /\ resp' = [resp EXCEPT ![c] = answer]
                    /\ pc' = [pc EXCEPT ![c] = "done"]
               ELSE /\ pc' = [pc EXCEPT ![c] = "d_search"]
                    /\ UNCHANGED resp
  /\ UNCHANGED <<disk, logsView, retry, timeline, listCall, fetch, scan, gatewayCall, mailbox, now, confirmationTokens,
                 tokenCount, operationLogs, logFile, operation, messageIds, batch, submitted, ret,
                 tickets>>

ToolCall(c) == HandleDelete(c, ToolRequests, SearchEnvs)

(***************************************************************************)
(* GmailClient.deleteEmails up to the batch run                             *)
(***************************************************************************)
\* a faulty variant: one id more than maxDeletions passes
TooMany_off_by_one(ids, maxDeletions) == Len(ids) > maxDeletions + 1

\* the limit check of deleteEmails
TooMany(ids, maxDeletions) == Len(ids) > maxDeletions

\* deleteEmails from its entry to its first suspension inside the batch run, or
\* to its end.  r is the invocation's request.
deleteEmails(c, r) ==
  LET p == DeleteParams(ClientArgs(r))
      op == NewOperation(p.query, p.dryRun)
  IN
  \/ \* refreshTokenIfNeeded throws before the try block
     /\ EndCall(c, r, Threw("Token refresh failed"))
     /\ UNCHANGED <<disk, logsView, retry, timeline, handlerFound, listCall, fetch, scan, gatewayCall, mailbox, now, confirmationTokens, tokenCount, operationLogs,
                    logFile, submitted, tickets>>
  \/ \E env \in ListEnvs :
       LET searchResult == searchEmails(mailbox, p.query, p.maxDeletions + 1, FALSE, env)
           ids == searchResult.messages
           token == generateConfirmationToken(tokenCount)
           dryOp == [op EXCEPT !.success = TRUE, !.count = Some(Len(ids)),
                               !.confirmationToken = Some(token)]
       IN
       /\ listCall' = [listCall EXCEPT ![c] =
                         ListCall(mailbox, ListRequest(p.query, p.maxDeletions + 1, FALSE),
                                  env)]
       /\ IF ~searchResult.ok \/ TooMany(ids, p.maxDeletions)
            THEN \E rewritten \in WriteOutcomes :
                   LET msg == IF ~searchResult.ok THEN searchResult.error
                                                  ELSE "Too many emails to delete"
                       caught == CatchAndLog(operationLogs, logFile, op, msg, FALSE, rewritten)
                   IN /\ EndCall(c, r, caught.ret)
                      /\ operationLogs' = caught.logs
                      /\ logFile' = caught.file
                      /\ UNCHANGED <<disk, logsView, retry, timeline, handlerFound, fetch, scan, gatewayCall, mailbox, now, confirmationTokens, tokenCount, submitted,
                                     tickets>>
          ELSE IF p.dryRun
            THEN /\ confirmationTokens' = MapSet(confirmationTokens, token,
                                                 Ticket(p.query, ids, now))
                 /\ tickets' = MapSet(tickets, token, confirmationTokens'[token])
                 /\ tokenCount' = token
                 /\ \E written \in WriteOutcomes :
                      LET l == logOperation(operationLogs, logFile, dryOp, written) IN
                      IF ~l.threw
                        THEN /\ EndCall(c, r, Returned(0, 0, <<[dryRunCount |-> Len(ids)]>>,
                                                       Some(token)))
                             /\ operationLogs' = l.logs
                             /\ logFile' = l.file
                        ELSE \E rewritten \in WriteOutcomes :
                               LET caught == CatchAndLog(l.logs, l.file, dryOp,
                                                         "appendFileSync failed", TRUE,
                                                         rewritten)
                               IN /\ EndCall(c, r, caught.ret)
                                  /\ operationLogs' = caught.logs
                                  /\ logFile' = caught.file
                 /\ UNCHANGED <<disk, logsView, retry, timeline, handlerFound, fetch, scan, gatewayCall, mailbox, now, submitted>>
          ELSE \* processBatchDeletion(messageIds) begins
               /\ pc' = [pc EXCEPT ![c] = IF Len(ids) > 0 THEN "batch" ELSE "batch_done"]
               /\ req' = [req EXCEPT ![c] = r]
               /\ operation' = [operation EXCEPT ![c] = op]
               /\ messageIds' = [messageIds EXCEPT ![c] = ids]
               /\ batch' = [batch EXCEPT ![c] = NoBatch]
               /\ UNCHANGED <<disk, logsView, retry, timeline, handlerFound, fetch, scan, gatewayCall, mailbox, now, confirmationTokens, tokenCount, operationLogs,
                              logFile, exactCount, submitted, ret, resp, tickets>>

\* a direct call of GmailClient.deleteEmails
DeleteCall(c) ==
  /\ CanStart(c)
  /\ DeleteBudget
  /\ \E args \in DeleteRequests : deleteEmails(c, [kind |-> "delete", args |-> args])

\* the call of deleteEmails that handleDeleteEmails makes
ToolDelete(c) ==
  /\ pc[c] = "d_search"
  /\ deleteEmails(c, req[c])

(***************************************************************************)
(* GmailClient.processBatchDeletion: one turn of the loop                   *)
(***************************************************************************)
\* a faulty variant: a batch takes one id too many
BatchOf_overlapping(ids, i) == Slice(ids, i, i + MAX_BATCH_SIZE + 1)

\* a faulty variant: a failed batch is not counted
NextBatch_failure_dropped(b, size, ok) ==
  [i |-> b.i + MAX_BATCH_SIZE,
   deletedCount |-> IF ok THEN b.deletedCount + size ELSE b.deletedCount,
   failedCount |-> b.failedCount,
   errors |-> IF ok THEN b.errors ELSE Append(b.errors, [failedBatch |-> size])]

\* messageIds.slice(i, i + MAX_BATCH_SIZE)
BatchOf(ids, i) == Slice(ids, i, i + MAX_BATCH_SIZE)

\* the loop's bookkeeping after the batch at index b.i was deleted (ok) or not
NextBatch(b, size, ok) ==
  [i |-> b.i + MAX_BATCH_SIZE,
   deletedCount |-> IF ok THEN b.deletedCount + size ELSE b.deletedCount,
   failedCount |-> IF ok THEN b.failedCount ELSE b.failedCount + size,
   errors |-> IF ok THEN b.errors ELSE Append(b.errors, [failedBatch |-> size])]

\* a faulty variant: the run stops at the first batch that failed
LoopContinues_abort_on_failure(b, total) ==
  IF b.failedCount > 0 THEN "aborted" ELSE IF b.i < total THEN "batch" ELSE "batch_done"

\* the loop test i < messageIds.length after i += MAX_BATCH_SIZE
LoopContinues(b, total) == IF b.i < total THEN "batch" ELSE "batch_done"

\* a faulty variant: the run pauses after the last batch too
PaceNeeded_after_every_batch(i, total) == i < total

\* if (i + MAX_BATCH_SIZE < messageIds.length) await this.sleep(RATE_LIMIT_DELAY)
PaceNeeded(i, total) == i + MAX_BATCH_SIZE < total

\* one entry of the timeline: an invocation of batchDelete, a backoff sleep of
\* retryWithBackoff, the settling of the retried call (ok or not), or the
\* pacing sleep of the loop; chunk is the number of the batch, from 1
Event(kind, chunk, ms, ok) == [kind |-> kind, chunk |-> chunk, ms |-> ms, ok |-> ok]

\* what retryWithBackoff did for one batch, from its j-th invocation on
RECURSIVE RetryEvents(_, _, _)
RetryEvents(r, chunk, j) ==
  IF j > r.invocations
    THEN <<Event("settled", chunk, 0, r.ok)>>
    ELSE <<Event("invoke", chunk, 0, FALSE)>>
         \o (IF j <= Len(r.waits) THEN <<Event("backoff", chunk, r.waits[j], FALSE)>>
                                  ELSE <<>>)
         \o RetryEvents(r, chunk, j + 1)

processBatchDeletion(c) ==
  /\ pc[c] = "batch"
  /\ \E script \in Scripts :
       LET ids == BatchOf(messageIds[c], batch[c].i)
           r == retryWithBackoff(script)
           b == NextBatch(batch[c], Len(ids), r.ok)
           chunk == Len(submitted[c]) + 1
       IN /\ submitted' = [submitted EXCEPT ![c] = Append(@, ids)]
          /\ mailbox' = IF r.ok THEN BatchDelete(mailbox, ids) ELSE mailbox
          /\ batch' = [batch EXCEPT ![c] = b]
          /\ timeline' = [timeline EXCEPT ![c] =
                            @ \o RetryEvents(r, chunk, 1)
                              \o (IF PaceNeeded(batch[c].i, Len(messageIds[c]))
                                    THEN <<Event("pace", chunk, RATE_LIMIT_DELAY, FALSE)>>
                                    ELSE <<>>)]
          /\ pc' = [pc EXCEPT ![c] = LoopContinues(b, Len(messageIds[c]))]
  /\ UNCHANGED <<disk, logsView, retry, handlerFound, listCall, fetch, scan, gatewayCall, now, confirmationTokens, tokenCount, operationLogs,
                 logFile, req, exactCount, operation, messageIds, ret, resp, tickets>>

\* deleteEmails after the batch run: the audit record and the result
\* a faulty variant: the run counts as a success when any batch was deleted
Succeeded_some_deleted(results) == results.deletedCount > 0

\* operation.success = results.failedCount === 0
Succeeded(results) == results.failedCount = 0

DeleteFinish(c) ==
  /\ pc[c] = "batch_done"
  /\ req[c].kind \in {"tool", "delete"}
  /\ LET results == batch[c]
         op == [operation[c] EXCEPT !.success = Succeeded(results),
                                    !.count = Some(results.deletedCount)]
     IN \E written \in WriteOutcomes :
          LET l == logOperation(operationLogs, logFile, op, written) IN
          IF ~l.threw
            THEN /\ EndCall(c, req[c], Returned(results.deletedCount, results.failedCount,
                                                results.errors, None))
                 /\ operationLogs' = l.logs
                 /\ logFile' = l.file
            ELSE \E rewritten \in WriteOutcomes :
                   LET caught == CatchAndLog(l.logs, l.file, op, "appendFileSync failed",
                                             TRUE, rewritten)
                   IN /\ EndCall(c, req[c], caught.ret)
                      /\ operationLogs' = caught.logs
                      /\ logFile' = caught.file
  /\ UNCHANGED <<disk, logsView, retry, timeline, handlerFound, listCall, fetch, scan, gatewayCall, mailbox, now, confirmationTokens, tokenCount, submitted, tickets>>

(***************************************************************************)
(* GmailClient.confirmAndDeleteEmails                                       *)
(***************************************************************************)
\* a faulty variant: the ticket counts as expired at its deadline already
Expired_at_deadline(tokenData, t) == t >= tokenData.expires

\* Date.now() > tokenData.expires
Expired(tokenData, t) == t > tokenData.expires

\* a faulty variant: an expired ticket stays in the store
Evict_nothing(store, token) == store

\* the ticket store after an expired ticket was presented
Evict(store, token) == MapDelete(store, token)

\* the call up to its first suspension: the token is looked up and checked,
\* and the batch run over the ticket's ids begins
\* a faulty variant: the redemption runs the ticket's filter again
RedeemedIds_filter_rerun(tokenData, mb) == Matching(mb, SearchQuery(tokenData.query, FALSE))

\* the ids a redemption hands to processBatchDeletion: tokenData.messageIds
RedeemedIds(tokenData, mb) == tokenData.messageIds

ConfirmCall(c) ==
  /\ CanStart(c)
  /\ \E token \in Tokens :
       LET r == [kind |-> "confirm", args |-> [query |-> "", token |-> token]] IN
       IF token \notin DOMAIN confirmationTokens
         THEN /\ EndCall(c, r, Threw("Invalid or expired confirmation token"))
              /\ UNCHANGED confirmationTokens
         ELSE LET tokenData == confirmationTokens[token] IN
              IF Expired(tokenData, now)
                THEN /\ confirmationTokens' = Evict(confirmationTokens, token)
                     /\ EndCall(c, r, Threw("Confirmation token has expired"))
                ELSE /\ pc' = [pc EXCEPT ![c] = IF Len(RedeemedIds(tokenData, mailbox)) > 0
                                                  THEN "batch" ELSE "batch_done"]
                     /\ req' = [req EXCEPT ![c] = r]
                     /\ messageIds' = [messageIds EXCEPT ![c] =
                                        RedeemedIds(tokenData, mailbox)]
                     /\ batch' = [batch EXCEPT ![c] = NoBatch]
                     /\ UNCHANGED <<confirmationTokens, exactCount, operation, ret, resp>>
  /\ UNCHANGED <<disk, logsView, retry, timeline, handlerFound, listCall, fetch, scan, gatewayCall, mailbox, now, tokenCount, operationLogs, logFile, submitted, tickets>>

\* a faulty variant: a redeemed ticket stays in the store
Consume_nothing(store, token) == store

\* the ticket store once the batch run of a redemption has ended
Consume(store, token) == MapDelete(store, token)

\* the call after its batch run: the ticket is deleted and the result returned
ConfirmFinish(c) ==
  /\ pc[c] = "batch_done"
  /\ req[c].kind = "confirm"
  /\ confirmationTokens' = Consume(confirmationTokens, req[c].args.token)
  /\ EndCall(c, req[c], Returned(batch[c].deletedCount, batch[c].failedCount,
                                 batch[c].errors, None))
  /\ UNCHANGED <<disk, logsView, retry, timeline, handlerFound, listCall, fetch, scan, gatewayCall, mailbox, now, tokenCount, operationLogs, logFile, submitted, tickets>>

(***************************************************************************)
(* Direct calls of searchEmails and countEmails                             *)
(***************************************************************************)
\* number of invocations that search or count
MaxReads == 2

ReadBudget == Cardinality({d \in Calls : req[d].kind \in {"search", "count"}}) < MaxReads

SearchCall(c) ==
  /\ CanStart(c)
  /\ ReadBudget
  /\ \E args \in SearchRequests, env \in SearchEnvs :
       LET p == SearchParams(args)
           searchResult == searchEmails(mailbox, p.query, p.maxResults,
                                        p.includeSpamTrash, env)
       IN /\ EndCall(c, [kind |-> "search", args |-> args],
                     IF searchResult.ok
                       THEN Found(searchResult.messages, searchResult.totalResults)
                       ELSE Threw(searchResult.error))
          /\ listCall' = [listCall EXCEPT ![c] =
                            ListCall(mailbox, ListRequest(p.query, p.maxResults,
                                                          p.includeSpamTrash), env)]
  /\ UNCHANGED <<disk, logsView, retry, timeline, handlerFound, fetch, scan, gatewayCall, mailbox, now, confirmationTokens, tokenCount, operationLogs, logFile,
                 submitted, tickets>>

CountCall(c) ==
  /\ CanStart(c)
  /\ ReadBudget
  /\ \E args \in CountRequests, env \in SearchEnvs :
       LET p == CountParams(args)
           counted == countEmails(mailbox, p.query, p.includeSpamTrash, env)
       IN /\ EndCall(c, [kind |-> "count", args |-> args],
                     IF counted.ok THEN Counted(counted.count) ELSE Threw(counted.error))
          /\ listCall' = [listCall EXCEPT ![c] =
                            [ListCall(mailbox, CountListRequest(p.query, p.includeSpamTrash),
                                      env) EXCEPT !.rejected = {}]]
  /\ UNCHANGED <<disk, logsView, retry, timeline, handlerFound, fetch, scan, gatewayCall, mailbox, now, confirmationTokens, tokenCount, operationLogs, logFile,
                 submitted, tickets>>

(***************************************************************************)
(* retryWithBackoff on its own                                              *)
(***************************************************************************)
RetryCall ==
  /\ ~retry.ran
  /\ \E script \in RetryScripts, maxRetries \in RetryLimits :
       retry' = [ran |-> TRUE, script |-> script, maxRetries |-> maxRetries,
                 result |-> RetryLoop(script, maxRetries, 0, <<>>, Fail(0, FALSE))]
  /\ UNCHANGED <<mailbox, now, confirmationTokens, tokenCount, operationLogs, logFile, disk,
                 logsView, pc, req, exactCount, operation, messageIds, batch, submitted, ret,
                 resp, tickets, timeline, handlerFound, listCall, fetch, scan, gatewayCall>>

(***************************************************************************)
(* GmailClient.searchEmails: the metadata fetch loop, step by step          *)
(***************************************************************************)
\* messages.slice(i, i + batchSize)
FetchBatch(messages, i) == Slice(messages, i, i + FETCH_BATCH_SIZE)

\* a faulty variant: the loop pauses after the last batch too
FetchPaceNeeded_after_every_batch(i, total) == i < total

\* if (i + batchSize < messages.length) await this.sleep(RATE_LIMIT_DELAY)
FetchPaceNeeded(i, total) == i + FETCH_BATCH_SIZE < total

\* batch.map(...): a users.messages.get request goes out for every id of the
\* batch at index i, all in one synchronous stretch; past the end of the
\* list the loop is over
IssueBatch(f, i) ==
  IF i < Len(f.messages)
    THEN [f EXCEPT !.pc = "awaiting", !.i = i,
                   !.inFlight = Range(FetchBatch(f.messages, i))]
    ELSE [f EXCEPT !.pc = "done", !.i = i]

\* the list response arrives: nothing listed ends the search, otherwise the
\* first batch is issued
FetchBegin ==
  /\ fetch.pc = "idle"
  /\ \E kind \in DropKinds :
       LET messages == ListMessages(mailbox, SearchQuery("from:a", TRUE), LIST_CAP)
           f == [NoFetch EXCEPT !.messages = messages,
                                !.rejected = Rejected(messages, kind)]
       IN fetch' = IF Len(messages) = 0 THEN [f EXCEPT !.pc = "done"] ELSE IssueBatch(f, 0)
  /\ UNCHANGED <<mailbox, now, confirmationTokens, tokenCount, operationLogs, logFile, disk,
                 logsView, retry, timeline, handlerFound, listCall, scan, gatewayCall, pc, req, exactCount,
                 operation, messageIds, batch, submitted, ret, resp, tickets>>

\* one fetch in flight settles, fulfilled or rejected, its retries included.
\* Fetches settle in any order; the lowest or the highest id in flight is
\* taken to settle next.
FetchSettles(id) ==
  /\ fetch.pc = "awaiting"
  /\ id \in fetch.inFlight
  /\ \/ \A other \in fetch.inFlight : id <= other
     \/ \A other \in fetch.inFlight : id >= other
  /\ fetch' = [fetch EXCEPT !.inFlight = @ \ {id}]
  /\ UNCHANGED <<mailbox, now, confirmationTokens, tokenCount, operationLogs, logFile, disk,
                 logsView, retry, timeline, handlerFound, listCall, scan, gatewayCall, pc, req, exactCount,
                 operation, messageIds, batch, submitted, ret, resp, tickets>>

\* Promise.allSettled resolves: the fulfilled results are pushed in the order
\* of the batch, and the loop sleeps or is over
FetchGather ==
  /\ fetch.pc = "awaiting"
  /\ fetch.inFlight = {}
  /\ LET Fulfilled(id) == id \notin fetch.rejected
         pushed == fetch.detailedMessages
                     \o SelectSeq(FetchBatch(fetch.messages, fetch.i), Fulfilled)
     IN fetch' = IF FetchPaceNeeded(fetch.i, Len(fetch.messages))
                   THEN [fetch EXCEPT !.pc = "pacing", !.detailedMessages = pushed,
                                      !.paces = @ + 1]
                   ELSE IssueBatch([fetch EXCEPT !.detailedMessages = pushed],
                                   fetch.i + FETCH_BATCH_SIZE)
  /\ UNCHANGED <<mailbox, now, confirmationTokens, tokenCount, operationLogs, logFile, disk,
                 logsView, retry, timeline, handlerFound, listCall, scan, gatewayCall, pc, req, exactCount,
                 operation, messageIds, batch, submitted, ret, resp, tickets>>

\* the pacing sleep is over: i += batchSize and the next turn of the loop
FetchPaceElapsed ==
  /\ fetch.pc = "pacing"
  /\ fetch' = IssueBatch(fetch, fetch.i + FETCH_BATCH_SIZE)
  /\ UNCHANGED <<mailbox, now, confirmationTokens, tokenCount, operationLogs, logFile, disk,
                 logsView, retry, timeline, handlerFound, listCall, scan, gatewayCall, pc, req, exactCount,
                 operation, messageIds, batch, submitted, ret, resp, tickets>>

(***************************************************************************)
(* The client's requests to the gateway, one call site at a time            *)
(***************************************************************************)
\* the places where GmailClient calls this.gmail
CallSites ==
  {"searchEmails: users.messages.list", "searchEmails: users.messages.get",
   "countEmails: users.messages.list", "processBatchDeletion: users.messages.batchDelete",
   "getEmailDetails: users.messages.get", "listLabels: users.labels.list"}

\* whether the request at the call site is wrapped in this.retryWithBackoff(...)
ThroughExecutor(site) ==
  site \notin {"getEmailDetails: users.messages.get", "listLabels: users.labels.list"}

\* await this.gmail...: the request is made once
Awaited(script) ==
  [ok |-> Answer(script, 1).ok, error |-> Answer(script, 1), invocations |-> 1,
   waits |-> <<>>]

\* the request made at a call site, to an operation that answers as script says
GatewayRequest(site, script) ==
  IF ThroughExecutor(site) THEN retryWithBackoff(script) ELSE Awaited(script)

GatewayCall ==
  /\ ~gatewayCall.ran
  /\ \E site \in CallSites, script \in RetryScripts :
       gatewayCall' = [ran |-> TRUE, site |-> site, script |-> script,
                       result |-> GatewayRequest(site, script)]
  /\ UNCHANGED <<mailbox, now, confirmationTokens, tokenCount, operationLogs, logFile, disk,
                 logsView, retry, timeline, handlerFound, listCall, fetch, scan, pc, req,
                 exactCount, operation, messageIds, batch, submitted, ret, resp, tickets>>

(***************************************************************************)
(* GmailClient.findUnsubscribeLinks                                         *)
(***************************************************************************)
\* number of comma-separated tokens in one List-Unsubscribe header value
MaxTokens == 2
\* sizes of the mailboxes scanned: none, one or two items outside spam and trash
ScanSizes == {0, 1, 3}

Url(scheme, rest) == [scheme |-> scheme, rest |-> rest]
\* one token of a header value: a URI, inside angle brackets or bare
Token(bracketed, url) == [bracketed |-> bracketed, url |-> url]
HeaderTokens ==
  {Token(TRUE, Url("https", "//mailchimp.com/u1")),
   Token(TRUE, Url("https", "//b.example/u2")),
   Token(TRUE, Url("mailto", "unsub@b.example")),
   Token(FALSE, Url("https", "//b.example/u2"))}
HeaderValues == UNION {[1..n -> HeaderTokens] : n \in 0..MaxTokens}

Header(name, value) == [name |-> name, value |-> value]
\* String.prototype.toLowerCase on the header names of the model
ToLowerCase(name) ==
  CASE name = "List-Unsubscribe" -> "list-unsubscribe"
    [] name = "Subject" -> "subject"
    [] OTHER -> name
\* message.payload of a fetched item: absent, or its headers in order
Payloads ==
  {None, Some(<<>>), Some(<<Header("Subject", <<>>)>>)}
    \cup {Some(<<Header("Subject", <<>>), Header("List-Unsubscribe", v)>>) : v \in HeaderValues}
    \cup {Some(<<Header("list-unsubscribe", v)>>) : v \in {w \in HeaderValues : Len(w) <= 1}}

\* /<(https?:\/\/[^>]+)>/g: the text of every http or https URI that stands
\* in angle brackets, in order
extractUrlsFromHeader(headerValue) ==
  LET Matches(t) == t.bracketed /\ t.url.scheme \in {"http", "https"}
      matched == SelectSeq(headerValue, Matches)
  IN [k \in 1..Len(matched) |-> matched[k].url]

\* headers.find(h => h.name.toLowerCase() === 'list-unsubscribe')
FindUnsubscribeHeader(headers) ==
  LET Is(h) == ToLowerCase(h.name) = "list-unsubscribe"
      found == SelectSeq(headers, Is)
  IN IF Len(found) = 0 THEN None ELSE Some(found[1])

\* new URL(url).hostname contains one of the trustedDomains
isVerifiedDomain(url) == url.rest = "//mailchimp.com/u1"

\* the links one message contributes: those of its List-Unsubscribe header
\* (extractUnsubscribeLinksFromBody returns none)
MessageLinks(payload, verifyLinks) ==
  IF payload = None THEN <<>>
  ELSE LET unsubscribeHeader == FindUnsubscribeHeader(payload[1])
       IN IF unsubscribeHeader = None THEN <<>>
          ELSE LET urls == extractUrlsFromHeader(unsubscribeHeader[1].value)
               IN [k \in 1..Len(urls) |->
                     [url |-> urls[k], method |-> "GET", source |-> "header",
                      isVerified |-> IF verifyLinks THEN isVerifiedDomain(urls[k])
                                                    ELSE FALSE]]

\* the loop over searchResult.messages
RECURSIVE CollectLinks(_, _, _)
CollectLinks(payloads, verifyLinks, k) ==
  IF k > Len(payloads) THEN <<>>
  ELSE MessageLinks(payloads[k], verifyLinks) \o CollectLinks(payloads, verifyLinks, k + 1)

\* array.findIndex(l => l.url === url), 1-based
FindIndex(links, url) ==
  CHOOSE k \in 1..Len(links) :
    links[k].url = url /\ \A j \in 1..(k - 1) : links[j].url # url

\* a faulty variant: a link is dropped only when it repeats the one before it
UniqueLinks_adjacent_only(links) ==
  LET idx == {k \in 1..Len(links) : k = 1 \/ links[k - 1].url # links[k].url}
      Pos(n) == CHOOSE k \in idx : Cardinality({j \in idx : j < k}) = n - 1
  IN [n \in 1..Cardinality(idx) |-> links[Pos(n)]]

\* unsubscribeLinks.filter((link, index, array) =>
\*   array.findIndex(l => l.url === link.url) === index)
UniqueLinks(links) ==
  LET idx == {k \in 1..Len(links) : FindIndex(links, links[k].url) = k}
      Pos(n) == CHOOSE k \in idx : Cardinality({j \in idx : j < k}) = n - 1
  IN [n \in 1..Cardinality(idx) |-> links[Pos(n)]]

\* what the collaborators answer during a scan: the estimate is not read
ScanEnvs == ListEnvs

\* findUnsubscribeLinks(query, 50, verifyLinks); payloads are the payloads
\* of the fetched messages, in order
ScanCall ==
  /\ ~scan.ran
  /\ \E verifyLinks \in BOOLEAN, env \in ScanEnvs, written \in WriteOutcomes,
        rewritten \in WriteOutcomes :
       LET query == "from:a"
           op == [NewOperation(query, FALSE) EXCEPT !.operation = "unsubscribe"]
           searchResult == searchEmails(mailbox, query, 50, FALSE, env)
           done(status, fetched, payloads, links) ==
             scan' = [ran |-> TRUE, query |-> query, verifyLinks |-> verifyLinks,
                      fetched |-> fetched, payloads |-> payloads, status |-> status,
                      links |-> links]
       IN IF ~env.auth
            THEN \* refreshTokenIfNeeded throws before the try block
                 /\ done("threw", <<>>, <<>>, <<>>)
                 /\ UNCHANGED <<operationLogs, logFile>>
          ELSE IF ~searchResult.ok
            THEN LET c == CatchAndLog(operationLogs, logFile, op, searchResult.error,
                                      FALSE, written)
                 IN /\ done("threw", <<>>, <<>>, <<>>)
                    /\ operationLogs' = c.logs
                    /\ logFile' = c.file
          ELSE \E payloads \in [1..Len(searchResult.messages) -> Payloads] :
                 LET uniqueLinks == UniqueLinks(CollectLinks(payloads, verifyLinks, 1))
                     succeeded == [op EXCEPT !.success = TRUE,
                                             !.count = Some(Len(uniqueLinks))]
                     l == logOperation(operationLogs, logFile, succeeded, written)
                     c == CatchAndLog(l.logs, l.file, succeeded, "appendFileSync failed",
                                      TRUE, rewritten)
                 IN IF l.threw
                      THEN /\ done("threw", searchResult.messages, payloads, <<>>)
                           /\ operationLogs' = c.logs
                           /\ logFile' = c.file
                      ELSE /\ done("returned", searchResult.messages, payloads, uniqueLinks)
                           /\ operationLogs' = l.logs
                           /\ logFile' = l.file
  /\ UNCHANGED <<mailbox, now, confirmationTokens, tokenCount, disk, logsView, retry, timeline,
                 handlerFound, listCall, fetch, gatewayCall, pc, req, exactCount, operation,
                 messageIds, batch, submitted, ret, resp, tickets>>

(***************************************************************************)
(* getOperationLogs and its caller                                          *)
(***************************************************************************)
GetLogsCall ==
  /\ logsView' = getOperationLogs(operationLogs)
  /\ logsView' # logsView
  /\ UNCHANGED <<mailbox, now, confirmationTokens, tokenCount, operationLogs, logFile, disk,
                 pc, req, exactCount, operation, messageIds, batch, submitted, ret, resp,
                 tickets, retry, timeline, handlerFound, listCall, fetch, scan, gatewayCall>>

\* the caller changes the array it was handed; an array shared with the client
\* changes for the client too
CallerEdits ==
  /\ logsView.handed
  /\ Len(logsView.items) <= Len(operationLogs)
  /\ \E items \in ArrayEdits(logsView.items) :
       /\ logsView' = [logsView EXCEPT !.items = items]
       /\ operationLogs' = IF logsView.shared THEN items ELSE operationLogs
  /\ UNCHANGED <<mailbox, now, confirmationTokens, tokenCount, logFile, disk, pc, req,
                 exactCount, operation, messageIds, batch, submitted, ret, resp, tickets,
                 retry, timeline, handlerFound, listCall, fetch, scan, gatewayCall>>

(***************************************************************************)
(* Environment                                                              *)
(***************************************************************************)
\* time passes
Tick ==
  /\ \E t \in Instants : t > now /\ now' = t
  /\ UNCHANGED <<mailbox, confirmationTokens, tokenCount, operationLogs, logFile, disk, logsView, retry, timeline, handlerFound, listCall, fetch, scan, gatewayCall, pc, req,
                 exactCount, operation, messageIds, batch, submitted, ret, resp, tickets>>

\* the client API: deleteEmails and confirmAndDeleteEmails called directly
Next ==
  \/ \E c \in Calls : DeleteCall(c)
  \/ \E c \in Calls : processBatchDeletion(c)
  \/ \E c \in Calls : DeleteFinish(c)
  \/ \E c \in Calls : ConfirmCall(c)
  \/ \E c \in Calls : ConfirmFinish(c)
  \/ Tick

Spec == Init /\ [][Next]_vars

\* the delete workflow: delete_emails tool calls and direct deleteEmails calls
NextTool ==
  \/ \E c \in Calls : ToolCall(c)
  \/ \E c \in Calls : ToolDelete(c)
  \/ \E c \in Calls : DeleteCall(c)
  \/ \E c \in Calls : processBatchDeletion(c)
  \/ \E c \in Calls : DeleteFinish(c)

SpecTool == InitFailing /\ [][NextTool]_vars

\* the delete_emails tool, and confirmAndDeleteEmails called on the client
FlowRequests ==
  { ToolArgs("from:a", None, None, None, None),
    ToolArgs("from:b", Some(FALSE), None, None, None),
    ToolArgs("from:a", Some(FALSE), None, Some(FALSE), Some(TRUE)) }

\* the handler's own search succeeds, after a retry or at once
FlowEnvs == {env \in ListEnvs : env.auth /\ env.drop = "none" /\ retryWithBackoff(env.list).ok}

FlowCall(c) == HandleDelete(c, FlowRequests, FlowEnvs)

NextFlow ==
  \/ \E c \in Calls : FlowCall(c)
  \/ \E c \in Calls : ToolDelete(c)
  \/ \E c \in Calls : processBatchDeletion(c)
  \/ \E c \in Calls : DeleteFinish(c)
  \/ \E c \in Calls : ConfirmCall(c)
  \/ \E c \in Calls : ConfirmFinish(c)
  \/ Tick

SpecFlow == Init /\ [][NextFlow]_vars

\* deleteEmails and getOperationLogs called directly on the client, with a
\* log file whose writes may fail
NextLog ==
  \/ \E c \in Calls : DeleteCall(c)
  \/ \E c \in Calls : processBatchDeletion(c)
  \/ \E c \in Calls : DeleteFinish(c)
  \/ GetLogsCall
  \/ CallerEdits

SpecLog == InitFailing /\ [][NextLog]_vars

\* deleteEmails without dry run on mailboxes of BatchSizes ids
BatchCall(c) ==
  /\ CanStart(c)
  /\ DeleteBudget
  /\ deleteEmails(c, [kind |-> "delete",
                      args |-> DeleteArgs("from:a", Some(FALSE),
                                          Some(MaxChunks * MAX_BATCH_SIZE + 2))])

NextBatchRun ==
  \/ \E c \in Calls : BatchCall(c)
  \/ \E c \in Calls : processBatchDeletion(c)
  \/ \E c \in Calls : DeleteFinish(c)

SpecBatch == InitBatch /\ [][NextBatchRun]_vars

\* one batch run on its own
FirstBatchCall(c) ==
  /\ \A d \in Calls : req[d].kind = "none"
  /\ BatchCall(c)

NextBatchLive ==
  \/ \E c \in Calls : FirstBatchCall(c)
  \/ \E c \in Calls : processBatchDeletion(c)
  \/ \E c \in Calls : DeleteFinish(c)

\* every gateway call settles and every continuation runs
SpecBatchLive ==
  /\ InitBatch
  /\ [][NextBatchLive]_vars
  /\ \A c \in Calls : WF_vars(processBatchDeletion(c)) /\ WF_vars(DeleteFinish(c))

\* deleteEmails with maxDeletions at the cap of the list request, just below
\* it, and 0, on mailboxes that hold nothing, or one id more outside spam and
\* trash than the cap
CapSizes == {0, LIST_CAP + Cardinality(SpamTrashIds) + 1}
CapRequests ==
  { DeleteArgs("from:a", Some(TRUE), Some(LIST_CAP)),
    DeleteArgs("from:a", Some(FALSE), Some(LIST_CAP)),
    DeleteArgs("from:a", Some(FALSE), Some(LIST_CAP - 1)),
    DeleteArgs("from:a", Some(TRUE), Some(0)),
    DeleteArgs("from:a", Some(FALSE), Some(0)) }

\* a first call, or a delete made after a dry run has returned its ticket
CapCall(c) ==
  /\ c \in {1, 2}
  /\ CanStart(c)
  /\ c = 2 => pc[1] = "done" /\ ret[1].confirmationToken # None
  /\ \E args \in CapRequests :
       /\ c = 2 => args.dryRun = Some(FALSE)
       /\ deleteEmails(c, [kind |-> "delete", args |-> args])

NextCap ==
  \/ \E c \in Calls : CapCall(c)
  \/ \E c \in Calls : processBatchDeletion(c)
  \/ \E c \in Calls : DeleteFinish(c)

InitCap == StartFrom(CapSizes) /\ disk = "healthy"

SpecCap == InitCap /\ [][NextCap]_vars

\* the fetch loop of one search over mailboxes of BatchSizes ids
NextFetch ==
  \/ FetchBegin
  \/ \E id \in Range(fetch.messages) : FetchSettles(id)
  \/ FetchGather
  \/ FetchPaceElapsed

InitFetch == StartFrom(BatchSizes) /\ disk = "healthy"

SpecFetch == InitFetch /\ [][NextFetch]_vars

\* one request to the gateway from any call site
NextGateway == GatewayCall

\* the mailbox has no part in a single request
InitGateway == StartFrom({0}) /\ disk = "healthy"

SpecGateway == InitGateway /\ [][NextGateway]_vars

\* one unsubscribe scan over a mailbox of ScanSizes ids
NextScan == ScanCall

InitScan == StartFrom(ScanSizes) /\ disk \in {"healthy", "failing"}

SpecScan == InitScan /\ [][NextScan]_vars

\* retryWithBackoff run on every operation of RetryScripts
NextRetry == RetryCall

SpecRetry == Init /\ [][NextRetry]_vars

\* searchEmails and countEmails called directly on the client
NextRead ==
  \/ \E c \in Calls : SearchCall(c)
  \/ \E c \in Calls : CountCall(c)

SpecRead == Init /\ [][NextRead]_vars

(***************************************************************************)
(* Properties of the delete workflow (checked under SpecTool)               *)
(***************************************************************************)
IsDelete(c) == req[c].kind \in {"tool", "delete"}
IsTool(c) == req[c].kind = "tool"
Finished(c) == pc[c] = "done"

\* C1: a delete invoked with dryRun = true, through GmailClient.deleteEmails
\* or through the delete_emails tool, passes no batch to batchDelete, whatever
\* the filter, the mailbox and maxDeletions; a result it returns has
\* deletedCount 0, and the tool does not answer with a deletion report.
C1_DryRunNeverDeletes ==
  \A c \in Calls :
    (IsDelete(c) /\ req[c].args.dryRun = Some(TRUE)) =>
       /\ submitted[c] = <<>>
       /\ pc[c] \notin {"batch", "batch_done"}
       /\ ret[c].status = "returned" => ret[c].deletedCount = 0
       /\ resp[c].kind # "Completed"

\* a dry run requested through the tool over a non-empty match has returned
C1_Witness ==
  \E c \in Calls :
    /\ IsTool(c) /\ req[c].args.dryRun = Some(TRUE)
    /\ ret[c].status = "returned" /\ ret[c].confirmationToken # None
    /\ resp[c].kind = "DryRunComplete"
    /\ Len(tickets[ret[c].confirmationToken[1]].messageIds) > 0

\* C2: whenever the total the handler's search reports (exactCount) exceeds
\* maxDeletions, for any dryRun and requireConfirmation, the tool call ends
\* with the limit rejection, which names both numbers, and no batch is passed
\* to batchDelete.
C2_OverLimitRejected ==
  \A c \in Calls :
    (IsTool(c) /\ exactCount[c] > OrDefault(req[c].args.maxDeletions, DEFAULT_MAX_DELETIONS)) =>
       /\ Finished(c)
       /\ resp[c].kind = "Rejected" /\ resp[c].isError
       /\ resp[c].exactCount = exactCount[c]
       /\ resp[c].maxDeletions = OrDefault(req[c].args.maxDeletions, DEFAULT_MAX_DELETIONS)
       /\ submitted[c] = <<>>
       /\ ret[c] = NoRet

\* an estimate of 120 against the default limit of 100 was rejected
C2_Witness ==
  \E c \in Calls :
    /\ IsTool(c) /\ req[c].args.maxDeletions = None
    /\ resp[c].kind = "Rejected"
    /\ resp[c].exactCount = FarEstimate /\ resp[c].maxDeletions = DEFAULT_MAX_DELETIONS

\* C3: a tool request with dryRun = false and requireConfirmation = true (the
\* tool accepts no ticket) passes no batch to batchDelete and never reaches
\* deleteEmails; when its search succeeds with a total between 1 and
\* maxDeletions it ends with the confirmation-required answer, which carries
\* the total and a preview of at most 5 of the items found, the first ones.
C3_ConfirmationRequired ==
  \A c \in Calls :
    (/\ IsTool(c)
     /\ req[c].args.dryRun = Some(FALSE)
     /\ OrDefault(req[c].args.requireConfirmation, TRUE)) =>
       /\ Finished(c)
       /\ submitted[c] = <<>>
       /\ ret[c] = NoRet
       /\ resp[c].kind \in {"Error", "NoEmails", "Rejected", "ConfirmationRequired"}
       /\ (exactCount[c] > 0 /\ exactCount[c] <= OrDefault(req[c].args.maxDeletions,
                                                          DEFAULT_MAX_DELETIONS)) =>
            /\ resp[c].kind = "ConfirmationRequired" /\ resp[c].isError
            /\ resp[c].exactCount = exactCount[c]
            /\ Len(resp[c].preview) <= PREVIEW_SIZE
            /\ resp[c].previewCount <= PREVIEW_SIZE
            /\ \A id \in Range(resp[c].preview) : FilterSelects(req[c].args.query, id)

\* a confirmation-required answer previews 5 of 26 items
C3_Witness ==
  \E c \in Calls :
    /\ IsTool(c) /\ req[c].args.dryRun = Some(FALSE)
    /\ resp[c].kind = "ConfirmationRequired"
    /\ Len(resp[c].preview) = PREVIEW_SIZE
    /\ resp[c].exactCount > PREVIEW_SIZE

\* C9: a dry run over N matched items, 0 < N <= maxDeletions, that returns
\* hands the issued token to its caller with deletedCount 0: in the result of
\* deleteEmails and in the tool response built from it.
C9_TokenReachesCaller ==
  \A c \in Calls :
    (/\ IsDelete(c) /\ Finished(c)
     /\ ret[c].status = "returned"
     /\ ret[c].confirmationToken # None) =>
       /\ ret[c].deletedCount = 0
       /\ ret[c].confirmationToken[1] \in DOMAIN confirmationTokens
       /\ IsTool(c) => /\ resp[c].kind = "DryRunComplete"
                       /\ resp[c].confirmationToken = ret[c].confirmationToken

\* C10: a delete_emails request that gives only the filter runs with
\* dryRun = true, maxDeletions = 100, requireConfirmation = true and
\* includeSpamTrash = false, and likewise deleteEmails(query); a request that
\* does not set dryRun = false passes no batch to batchDelete.
C10_Defaults ==
  /\ \A q \in Queries :
       /\ HandlerParams(ToolArgs(q, None, None, None, None))
            = [query |-> q, dryRun |-> TRUE, maxDeletions |-> 100,
               requireConfirmation |-> TRUE, includeSpamTrash |-> FALSE]
       /\ DeleteParams(DeleteArgs(q, None, None))
            = [query |-> q, dryRun |-> TRUE, maxDeletions |-> 100]
  /\ \A c \in Calls :
       (IsDelete(c) /\ req[c].args.dryRun # Some(FALSE)) =>
          /\ submitted[c] = <<>>
          /\ pc[c] \notin {"batch", "batch_done"}
          /\ resp[c].kind \notin {"Completed", "ConfirmationRequired"}
          /\ resp[c].kind = "Rejected" =>
               resp[c].maxDeletions = OrDefault(req[c].args.maxDeletions, 100)

\* a filter-only tool request over 51 matching items ended as a dry run
C10_Witness ==
  \E c \in Calls :
    /\ IsTool(c) /\ req[c].args = ToolArgs("from:a", None, None, None, None)
    /\ resp[c].kind = "DryRunComplete"
    /\ resp[c].exactCount > MAX_BATCH_SIZE
    /\ submitted[c] = <<>>

(***************************************************************************)
(* Properties of the confirmation tickets (checked under Spec)              *)
(***************************************************************************)
IsConfirm(c) == req[c].kind = "confirm"
TokenOf(c) == req[c].args.token
\* the step in which invocation c is called as a redemption
Redeems(c) == pc[c] = "new" /\ pc'[c] # "new" /\ req'[c].kind = "confirm"
\* the dry run that issued ticket t (invocations are called in the order of
\* their numbers)
Issuer(t) == CHOOSE d \in Calls : ret[d].confirmationToken = Some(t)
\* the redemptions of the issued ticket t other than c
OtherRedemptions(c, t) ==
  {d \in Calls \ {c} : IsConfirm(d) /\ TokenOf(d) = t /\ d > Issuer(t)}
Fails(c) == pc'[c] = "done" /\ ret'[c].status = "threw" /\ submitted'[c] = <<>>

\* C4: redemptions of an issued ticket made one after the other: the first
\* one, if made at a time not later than the ticket's expiry, enters the batch
\* run over the ticket's ids; if made later than the expiry it fails without a
\* batchDelete call; every redemption after the first fails without a
\* batchDelete call.
C4_TicketRoundTrip ==
  [][\A c \in Calls :
       (/\ Redeems(c)
        /\ req'[c].args.token \in DOMAIN tickets
        /\ \A d \in OtherRedemptions(c, req'[c].args.token) : Finished(d)) =>
          LET t == req'[c].args.token IN
          IF OtherRedemptions(c, t) = {}
            THEN IF now <= tickets[t].expires
                   THEN /\ pc'[c] \in {"batch", "batch_done"}
                        /\ messageIds'[c] = tickets[t].messageIds
                   ELSE Fails(c)
            ELSE Fails(c)]_vars

\* a first redemption deleted the ticket's items and a later one was refused
C4_Witness ==
  \E c, d \in Calls :
    /\ c < d /\ IsConfirm(c) /\ IsConfirm(d) /\ TokenOf(c) = TokenOf(d)
    /\ ret[c].status = "returned" /\ ret[c].deletedCount > 0
    /\ submitted[c] # <<>>
    /\ ret[d].status = "threw" /\ submitted[d] = <<>>

\* C5: of the redemptions bearing the same token, however they interleave,
\* at most one passes the ticket's ids to batchDelete.
C5_AtMostOneRedemptionDeletes ==
  \A c, d \in Calls :
    (c # d /\ IsConfirm(c) /\ IsConfirm(d) /\ TokenOf(c) = TokenOf(d)) =>
       ~(submitted[c] # <<>> /\ submitted[d] # <<>>)

\* C6: a redemption whose token is not in the store fails as invalid and
\* leaves the store alone; one whose ticket is in the store with now > expires
\* fails as expired and removes the ticket, so that a later redemption of it
\* fails as invalid; no failed redemption passes a batch to batchDelete.
C6_FailedRedemption ==
  /\ [][\A c \in Calls :
          Redeems(c) =>
            LET t == req'[c].args.token IN
            /\ (t \notin DOMAIN confirmationTokens) =>
                  /\ pc'[c] = "done"
                  /\ ret'[c] = Threw("Invalid or expired confirmation token")
                  /\ confirmationTokens' = confirmationTokens
            /\ (t \in DOMAIN confirmationTokens /\ now > confirmationTokens[t].expires) =>
                  /\ pc'[c] = "done"
                  /\ ret'[c] = Threw("Confirmation token has expired")
                  /\ t \notin DOMAIN confirmationTokens'
                  /\ \A u \in DOMAIN confirmationTokens \ {t} :
                        /\ u \in DOMAIN confirmationTokens'
                        /\ confirmationTokens'[u] = confirmationTokens[u]
            /\ submitted' = submitted
            /\ mailbox' = mailbox]_vars
  /\ [](\A c \in Calls :
          (IsConfirm(c) /\ ret[c].status = "threw") =>
             /\ submitted[c] = <<>>
             /\ ret[c].error \in {"Invalid or expired confirmation token",
                                  "Confirmation token has expired"})

\* an expired ticket was refused as expired, and then as invalid
C6_Witness ==
  \E c, d \in Calls :
    /\ c < d /\ IsConfirm(c) /\ IsConfirm(d) /\ TokenOf(c) = TokenOf(d)
    /\ TokenOf(c) \in DOMAIN tickets
    /\ ret[c] = Threw("Confirmation token has expired")
    /\ ret[d] = Threw("Invalid or expired confirmation token")
    /\ TokenOf(c) \notin DOMAIN confirmationTokens

\* C7: once a redemption that passed validation has ended its batch run,
\* whatever the batches' outcomes, its ticket is not in the store; the step
\* that ends it returns the run's counts; and a ticket that has left the store
\* never comes back, so that it is removed once.
C7_TicketConsumedOnce ==
  /\ [](\A c \in Calls :
          (IsConfirm(c) /\ Finished(c) /\ ret[c].status = "returned") =>
             TokenOf(c) \notin DOMAIN confirmationTokens)
  /\ [][/\ \A c \in Calls :
            (IsConfirm(c) /\ pc[c] = "batch_done" /\ pc'[c] = "done") =>
               /\ TokenOf(c) \notin DOMAIN confirmationTokens'
               /\ ret'[c] = Returned(batch[c].deletedCount, batch[c].failedCount,
                                      batch[c].errors, None)
               /\ batch[c].deletedCount + batch[c].failedCount = Len(messageIds[c])
         /\ \A t \in DOMAIN tickets :
              t \notin DOMAIN confirmationTokens => t \notin DOMAIN confirmationTokens']_vars

\* a redemption ended with one batch deleted and one batch failed
C7_Witness ==
  \E c \in Calls :
    /\ IsConfirm(c) /\ Finished(c) /\ ret[c].status = "returned"
    /\ ret[c].deletedCount > 0 /\ ret[c].failedCount > 0
    /\ TokenOf(c) \in DOMAIN tickets
    /\ TokenOf(c) \notin DOMAIN confirmationTokens

\* C8: a ticket enters the store only in a step of a deleteEmails call whose
\* dryRun is true and whose limit check passed; it holds that call's filter
\* and ids that call's search listed, at most maxDeletions of them, and
\* expires 300000 ms after the step; no step changes a ticket that is in the
\* store.
C8_TicketsOnlyFromDryRun ==
  [][/\ \A t \in DOMAIN confirmationTokens \cap DOMAIN confirmationTokens' :
          confirmationTokens'[t] = confirmationTokens[t]
     /\ \A t \in DOMAIN confirmationTokens' \ DOMAIN confirmationTokens :
          \E c \in Calls :
            /\ pc[c] \in {"new", "d_search"} /\ pc'[c] = "done"
            /\ req'[c].kind \in {"tool", "delete"}
            /\ req'[c].args.dryRun # Some(FALSE)
            /\ LET q == req'[c].args.query
                   m == OrDefault(req'[c].args.maxDeletions, DEFAULT_MAX_DELETIONS)
                   ticket == confirmationTokens'[t]
               IN /\ ticket.query = q
                  /\ Len(ticket.messageIds) <= m
                  /\ Range(ticket.messageIds) \subseteq
                       Range(ListMessages(mailbox, SearchQuery(q, FALSE), m + 1))
                  /\ ticket.expires = now + 300000
                  /\ ret'[c].confirmationToken = Some(t)]_vars

\* a ticket over a non-empty match issued at a later instant than 0
C8_Witness ==
  \E t \in DOMAIN confirmationTokens :
    /\ Len(confirmationTokens[t].messageIds) > 0
    /\ confirmationTokens[t].expires = TOKEN_TTL + TOKEN_TTL
    /\ \E c \in Calls : req[c].kind = "delete" /\ ret[c].confirmationToken = Some(t)

(***************************************************************************)
(* Properties of the audit log                                              *)
(***************************************************************************)
\* the step in which invocation c returns to its caller
Returns(c) == pc[c] # "done" /\ pc'[c] = "done"
\* c returns from issuing a ticket, from a batch run of deleteEmails or of a
\* redemption, or from a delete that failed in its search or limit check
Mutates(c) ==
  \/ req'[c].kind = "confirm" /\ pc[c] = "batch_done"
  \/ req'[c].kind = "delete" /\ ret'[c] # Threw("Token refresh failed")

\* C11: each transition of the delete workflow that performs or attempts a
\* mutation (a dry run issuing a ticket, a batch deletion through deleteEmails
\* or through the redemption of a ticket, also one that fails) appends exactly
\* one audit record, in memory and in the log file, by the time it returns.
C11_OneAuditRecordPerTransition ==
  [][\A c \in Calls :
       (Returns(c) /\ Mutates(c)) =>
          /\ Len(operationLogs') = Len(operationLogs) + 1
          /\ Len(logFile') = Len(logFile) + 1]_vars

\* the audit records of an operation of this kind on this query with this
\* outcome
RecordsOf(kind, query, success) ==
  {i \in DOMAIN operationLogs :
     /\ operationLogs[i].operation = kind
     /\ operationLogs[i].query = query
     /\ operationLogs[i].success = success
     /\ ~success => operationLogs[i].error # None}

\* C12: every search, count or delete that has returned to its caller has left
\* an audit record of its kind and query that carries its outcome: success, or
\* failure with the error.
C12_EveryAttemptLogged ==
  \A c \in Calls :
    (Finished(c) /\ req[c].kind \in {"search", "count", "delete"}) =>
       RecordsOf(req[c].kind, req[c].args.query, ret[c].status = "returned") # {}

\* the record deleteEmails writes for the call c that has returned
WrittenFor(c) ==
  {i \in DOMAIN logFile :
     /\ logFile[i].operation = "delete"
     /\ logFile[i].query = req[c].args.query
     /\ logFile[i].success = (ret[c].failedCount = 0)
     /\ logFile[i].dryRun = (ret[c].confirmationToken # None)
     /\ logFile[i].confirmationToken = ret[c].confirmationToken
     /\ ret[c].confirmationToken = None => logFile[i].count = Some(ret[c].deletedCount)}

Transient(r) == ~r.ok /\ (r.code = 429 \/ r.rateMsg \/ r.code \in 500..599)
Terminal(r) == ~r.ok /\ ~Transient(r)

\* the invocations of the run, and the answer to the k-th of them
Invocations == 1..retry.result.invocations
Answered(k) == Answer(retry.script, k)

\* C14: the operation is invoked again only after a transient failure, and a
\* failure that is not transient is returned as it is, with no invocation and
\* no backoff wait after it: one invocation and no wait at all when it is
\* the first answer.
C14_RetryOnlyTransient ==
  retry.ran =>
    /\ \A k \in Invocations : k < retry.result.invocations => Transient(Answered(k))
    /\ \A k \in 1..(retry.maxRetries + 1) :
         (Terminal(Answered(k)) /\ \A j \in 1..(k - 1) : Transient(Answered(j))) =>
            /\ ~retry.result.ok
            /\ retry.result.error = Answered(k)
            /\ retry.result.invocations = k
            /\ Len(retry.result.waits) = k - 1

\* a terminal failure with code 600 after two transient ones
C14_Witness ==
  /\ retry.ran
  /\ retry.result.invocations = 3
  /\ ~retry.result.ok
  /\ retry.result.error = Fail(600, FALSE)
  /\ Answered(1) = Fail(403, TRUE)
  /\ Answered(2) = Fail(599, FALSE)

\* C15: the operation is invoked at most maxRetries + 1 times; the first
\* success ends the run at once; and when all maxRetries + 1 invocations fail
\* transiently the run fails with the failure of the last of them.
C15_BoundedAttempts ==
  retry.ran =>
    /\ retry.result.invocations <= retry.maxRetries + 1
    /\ retry.result.invocations >= 1
    /\ \A k \in 1..(retry.maxRetries + 1) :
         (Answered(k).ok /\ \A j \in 1..(k - 1) : Transient(Answered(j))) =>
            /\ retry.result.ok
            /\ retry.result.invocations = k
    /\ (\A k \in 1..(retry.maxRetries + 1) : Transient(Answered(k))) =>
          /\ ~retry.result.ok
          /\ retry.result.invocations = retry.maxRetries + 1
          /\ retry.result.error = Answered(retry.maxRetries + 1)

\* four transient failures, the last one different from the others, with the
\* default of three retries
C15_Witness ==
  /\ retry.ran
  /\ retry.maxRetries = MAX_RETRY_ATTEMPTS
  /\ retry.result.invocations = MAX_RETRY_ATTEMPTS + 1
  /\ ~retry.result.ok
  /\ retry.result.error = Fail(500, FALSE)
  /\ \A k \in 1..MAX_RETRY_ATTEMPTS : Answered(k) = Fail(429, FALSE)

\* 2 to the power n
RECURSIVE TwoTo(_)
TwoTo(n) == IF n = 0 THEN 1 ELSE 2 * TwoTo(n - 1)

\* C16: the wait after the transient failure of attempt k, counting from 0,
\* is 1000 * 2^k milliseconds, whichever kind of transient failure it was, and
\* there is one wait for each transient failure.
C16_BackoffSchedule ==
  retry.ran =>
    /\ Len(retry.result.waits) = Cardinality({k \in Invocations : Transient(Answered(k))})
    /\ \A k \in 0..(Len(retry.result.waits) - 1) :
         /\ Transient(Answered(k + 1))
         /\ retry.result.waits[k + 1] = 1000 * TwoTo(k)

\* waits of 1000, 2000 and 4000 ms after a rate limit, a server error and a
\* rate-limit message
C16_Witness ==
  /\ retry.ran
  /\ retry.result.ok
  /\ retry.result.waits = <<1000, 2000, 4000>>
  /\ Answered(1) = Fail(429, FALSE)
  /\ Answered(2) = Fail(500, FALSE)
  /\ Answered(3) = Fail(403, TRUE)

(***************************************************************************)
(* Claims about the batch run (specifications SpecBatch, SpecBatchLive)     *)
(***************************************************************************)
RECURSIVE Flatten(_)
Flatten(chunks) ==
  IF Len(chunks) = 0 THEN <<>> ELSE chunks[1] \o Flatten(SubSeq(chunks, 2, Len(chunks)))

\* the batch run of invocation c is under way, or has returned to its caller
InRun(c) == req[c].kind = "delete" /\ pc[c] \in {"batch", "batch_done"}
RunOver(c) == req[c].kind = "delete" /\ pc[c] = "batch_done"

\* the timeline entries of a kind
EventsOf(c, kind) == {p \in DOMAIN timeline[c] : timeline[c][p].kind = kind}

\* C17: a batch run over N ids hands batchDelete, through one retried call per
\* chunk, ceil(N / 50) contiguous chunks of 1 to 50 ids in the original
\* order; together the chunks are the list, each id in exactly one of them,
\* and no chunk at all when N = 0.
C17_BatchPartition ==
  \A c \in Calls :
    InRun(c) =>
      LET ids == messageIds[c]
          chunks == submitted[c]
      IN /\ \A k \in DOMAIN chunks :
              /\ Len(chunks[k]) \in 1..50
              /\ chunks[k] = SubSeq(ids, 50 * (k - 1) + 1, 50 * (k - 1) + Len(chunks[k]))
         /\ Cardinality(EventsOf(c, "settled")) = Len(chunks)
         /\ RunOver(c) =>
              /\ Len(chunks) = (Len(ids) + 49) \div 50
              /\ Flatten(chunks) = ids
              /\ \A id \in Range(ids) :
                   Cardinality({k \in DOMAIN chunks : id \in Range(chunks[k])}) = 1

\* 101 ids went out as chunks of 50, 50 and 1
C17_Witness ==
  \E c \in Calls :
    /\ RunOver(c)
    /\ Len(messageIds[c]) = 101
    /\ Len(submitted[c]) = 3
    /\ Len(submitted[c][3]) = 1

RECURSIVE SumSizes(_)
SumSizes(chunks) ==
  IF Len(chunks) = 0 THEN 0 ELSE Len(chunks[1]) + SumSizes(SubSeq(chunks, 2, Len(chunks)))

\* the chunks whose retried call ended in failure
FailedChunks(c) ==
  {timeline[c][p].chunk : p \in {q \in EventsOf(c, "settled") : ~timeline[c][q].ok}}

\* C18: throughout a batch run deletedCount + failedCount is the number of
\* ids in the chunks handled so far, at most N, and N when the run is over;
\* failedCount is the number of ids in the failed chunks and errors has one
\* entry per failed chunk; and a failed chunk does not end the run: every
\* chunk is handled.
C18_FailedChunkCounted ==
  \A c \in Calls :
    InRun(c) =>
      LET b == batch[c]
          chunks == submitted[c]
          failed == FailedChunks(c)
      IN /\ b.deletedCount + b.failedCount = SumSizes(chunks)
         /\ b.deletedCount + b.failedCount <= Len(messageIds[c])
         /\ b.failedCount = SumSizes([k \in 1..Len(chunks) |->
                                        IF k \in failed THEN chunks[k] ELSE <<>>])
         /\ Len(b.errors) = Cardinality(failed)
         /\ RunOver(c) =>
              /\ b.deletedCount + b.failedCount = Len(messageIds[c])
              /\ Len(chunks) = (Len(messageIds[c]) + 49) \div 50

\* the first chunk of 51 ids failed and the second was deleted
C18_Witness ==
  \E c \in Calls :
    /\ RunOver(c)
    /\ Len(messageIds[c]) = 51
    /\ batch[c].failedCount = 50
    /\ batch[c].deletedCount = 1
    /\ Len(batch[c].errors) = 1

\* C19: in a batch run the invocations of batchDelete come one chunk after
\* the other, each chunk's retried call settled before the next chunk's first
\* invocation; a settled chunk that is not the last is followed by one pacing
\* sleep of 2000 ms and then by the next chunk, and the last chunk by none,
\* whether the chunks succeeded or failed.
C19_PacedSequential ==
  \A c \in Calls :
    LET t == timeline[c] IN
    /\ \A p \in DOMAIN t :
         IF p = 1
           THEN t[p].kind = "invoke" /\ t[p].chunk = 1
           ELSE LET e == t[p]
                    prev == t[p - 1]
                IN /\ e.kind = "invoke" =>
                        \/ prev.kind = "backoff" /\ prev.chunk = e.chunk
                        \/ prev.kind = "pace" /\ e.chunk = prev.chunk + 1
                   /\ e.kind = "backoff" => prev.kind = "invoke" /\ prev.chunk = e.chunk
                   /\ e.kind = "settled" =>
                        prev.kind \in {"invoke", "backoff"} /\ prev.chunk = e.chunk
                   /\ e.kind = "pace" =>
                        /\ prev.kind = "settled"
                        /\ prev.chunk = e.chunk
                        /\ e.ms = 2000
    /\ (pc[c] = "batch" /\ Len(t) > 0) => t[Len(t)].kind = "pace"
    /\ (pc[c] \in {"batch_done", "done"} /\ Len(t) > 0) => t[Len(t)].kind = "settled"
    /\ InRun(c) =>
         Cardinality(EventsOf(c, "pace")) =
           IF pc[c] = "batch" THEN Len(submitted[c])
           ELSE IF Len(submitted[c]) = 0 THEN 0 ELSE Len(submitted[c]) - 1

\* three chunks, the first failed, the second retried, and two pacing sleeps
C19_Witness ==
  \E c \in Calls :
    /\ pc[c] = "batch_done"
    /\ Len(submitted[c]) = 3
    /\ Cardinality(EventsOf(c, "pace")) = 2
    /\ Cardinality(EventsOf(c, "backoff")) >= 1
    /\ 1 \in FailedChunks(c)

\* C20: a batch run that has begun comes to its end with the totals of all
\* its chunks, whichever of them failed, and deleteEmails then returns these
\* totals when its audit record can be written.
C20_BatchRunCompletes ==
  \A c \in Calls :
    /\ (req[c].kind = "delete" /\ pc[c] = "batch") ~>
          (pc[c] = "batch_done" /\
           batch[c].deletedCount + batch[c].failedCount = Len(messageIds[c]))
    /\ (req[c].kind = "delete" /\ pc[c] = "batch" /\ disk = "healthy") ~>
          (pc[c] = "done" /\ ret[c].status = "returned" /\
           ret[c].deletedCount + ret[c].failedCount = SumSizes(submitted[c]))

\* a run of two chunks that both failed has returned its totals
C20_Witness ==
  \E c \in Calls :
    /\ req[c].kind = "delete"
    /\ pc[c] = "done"
    /\ ret[c].status = "returned"
    /\ ret[c].failedCount = 100
    /\ ret[c].deletedCount = 0
    /\ Len(submitted[c]) = 2

(***************************************************************************)
(* Claims about the search of a delete (specification SpecTool)             *)
(***************************************************************************)
\* the step in which the delete_emails tool is called as invocation c
ToolStarts(c) == pc[c] = "new" /\ pc'[c] # "new" /\ req'[c].kind = "tool"

\* the ids the filter of the tool request args matches in the mailbox mb
ToolMatches(mb, args) ==
  Matching(mb, SearchQuery(args.query, OrDefault(args.includeSpamTrash, FALSE)))

ToolSearches(c) == pc[c] = "d_search" /\ pc'[c] # "d_search"

\* ids may be what a search of mb with the request's own filter, limit and
\* includeSpamTrash returns: the listed ids whose metadata fetch succeeded
SearchedFor(ids, mb, args) ==
  LET p == HandlerParams(args)
      listed == ListMessages(mb, SearchQuery(p.query, p.includeSpamTrash),
                             Min(p.maxDeletions + 1, LIST_CAP))
  IN \E kind \in DropKinds :
       LET Fetched(id) == id \notin Rejected(listed, kind)
       IN ids = SelectSeq(listed, Fetched)

\* C22: the ids a delete_emails request deletes, or binds into a ticket, are
\* those of a search with maxResults = maxDeletions + 1 and the request's own
\* includeSpamTrash: with includeSpamTrash = true, those of the filter
\* without the spam and trash exclusions.
C22_SearchOfDelete ==
  [][\A c \in Calls :
       ToolSearches(c) =>
          /\ pc'[c] \in {"batch", "batch_done"} =>
                SearchedFor(messageIds'[c], mailbox, req[c].args)
          /\ (pc'[c] = "done" /\ ret'[c].confirmationToken # None) =>
                SearchedFor(confirmationTokens'[ret'[c].confirmationToken[1]].messageIds,
                            mailbox, req[c].args)]_vars

(***************************************************************************)
(* Claims about the delete workflow (specification SpecFlow)                *)
(***************************************************************************)
\* the step in which invocation c enters its batch run
EntersBatch(c) == pc[c] \notin {"batch", "batch_done"} /\ pc'[c] \in {"batch", "batch_done"}

C24_DeletesWhatWasCounted ==
  \A c \in Calls :
    (IsTool(c) /\ pc[c] \in {"batch", "batch_done"}) =>
       /\ messageIds[c] = handlerFound[c]
       /\ Len(messageIds[c]) <= exactCount[c]

(***************************************************************************)
(* Claims about searchEmails and countEmails (specification SpecRead)       *)
(***************************************************************************)
IsSearch(c) == req[c].kind = "search"
IsCount(c) == req[c].kind = "count"

\* C25: search and count send the filter to users.messages.list as it is when
\* includeSpamTrash is true, and with the spam and the trash exclusion added
\* when it is false or left out.
C25_ExclusionClauses ==
  \A c \in Calls :
    ((IsSearch(c) \/ IsCount(c)) /\ listCall[c].sent) =>
       LET q == listCall[c].request.q IN
       /\ q.filter = req[c].args.query
       /\ req[c].args.includeSpamTrash = Some(TRUE) => ~q.excludeSpam /\ ~q.excludeTrash
       /\ req[c].args.includeSpamTrash \in {None, Some(FALSE)} =>
             q.excludeSpam /\ q.excludeTrash
       /\ (listCall[c].answered /\ q.excludeSpam) =>
             Range(listCall[c].messages) \cap SpamTrashIds = {}

\* a search and a count that include spam and trash, the search listing a
\* message from there, and a count that leaves them out
C25_Witness ==
  \E c, d \in Calls :
    /\ IsSearch(c) /\ req[c].args.includeSpamTrash = Some(TRUE)
    /\ Range(listCall[c].messages) \cap SpamTrashIds # {}
    /\ IsCount(d) /\ req[d].args.includeSpamTrash = None
    /\ listCall[d].sent /\ listCall[d].request.q.excludeTrash

\* C26: whatever maxResults a search is called with, it asks
\* users.messages.list for min(maxResults, 500) ids, and it returns at most
\* maxResults messages; totalResults may be larger than their number.
C26_ListLimit ==
  \A c \in Calls :
    (IsSearch(c) /\ listCall[c].sent) =>
       LET maxResults == OrDefault(req[c].args.maxResults, 100) IN
       /\ listCall[c].request.maxResults = IF maxResults < 500 THEN maxResults ELSE 500
       /\ Len(listCall[c].messages) <= listCall[c].request.maxResults
       /\ ret[c].status = "returned" => Len(ret[c].messages) <= maxResults

\* a search for more than 500 messages asked for 500, and a search for one
\* message returned it with a larger total
C26_Witness ==
  \E c, d \in Calls :
    /\ IsSearch(c) /\ req[c].args.maxResults = Some(OverCap)
    /\ listCall[c].sent /\ ret[c].status = "returned"
    /\ IsSearch(d) /\ req[d].args.maxResults = Some(1)
    /\ Len(ret[d].messages) = 1 /\ ret[d].totalResults > 1

\* the gateway answered the list requests of c and d, and in the same way
SameListExchange(c, d) ==
  /\ listCall[c].answered /\ listCall[d].answered
  /\ listCall[c].request = listCall[d].request
  /\ listCall[c].messages = listCall[d].messages
  /\ listCall[c].resultSizeEstimate = listCall[d].resultSizeEstimate

\* C27: a count returns what a search with the same filter and
\* includeSpamTrash and maxResults = 1 returns as totalResults on the same
\* list response, and that is the response's resultSizeEstimate.
C27_CountIsSearchEstimate ==
  \A c, d \in Calls :
    (/\ IsSearch(c) /\ req[c].args.maxResults = Some(1) /\ ret[c].status = "returned"
     /\ IsCount(d) /\ ret[d].status = "returned"
     /\ SameListExchange(c, d)) =>
       /\ ret[d].totalResults = ret[c].totalResults
       /\ ret[d].totalResults = listCall[d].resultSizeEstimate

\* C28: two searches that returned, with the same filter and includeSpamTrash
\* on a mailbox nothing changed, to which the gateway reported the same
\* estimate, return the same totalResults, also when metadata fetches failed
\* in one of them and not in the other.
C28_EstimateIdempotent ==
  \A c, d \in Calls :
    (/\ IsSearch(c) /\ ret[c].status = "returned"
     /\ IsSearch(d) /\ ret[d].status = "returned"
     /\ req[c].args.query = req[d].args.query
     /\ OrDefault(req[c].args.includeSpamTrash, FALSE)
          = OrDefault(req[d].args.includeSpamTrash, FALSE)
     /\ listCall[c].resultSizeEstimate = listCall[d].resultSizeEstimate) =>
       ret[c].totalResults = ret[d].totalResults

\* the same search twice, one of them with a failed metadata fetch
C28_Witness ==
  \E c, d \in Calls :
    /\ IsSearch(c) /\ IsSearch(d) /\ req[c].args = req[d].args
    /\ ret[c].status = "returned" /\ ret[d].status = "returned"
    /\ listCall[c].rejected = {} /\ listCall[d].rejected # {}
    /\ Len(ret[d].messages) < Len(ret[c].messages)
    /\ ret[c].totalResults = ret[d].totalResults

\* the listed ids whose metadata fetch was fulfilled, in list order
Fetched(c) ==
  LET Kept(id) == id \notin listCall[c].rejected IN SelectSeq(listCall[c].messages, Kept)

\* C29: a search whose list call succeeded returns, whichever metadata
\* fetches failed: its messages are the listed ids whose fetch succeeded, in
\* list order, and its totalResults is the resultSizeEstimate of the list
\* response.
C29_FetchFailuresDropped ==
  \A c \in Calls :
    (IsSearch(c) /\ Finished(c) /\ listCall[c].answered) =>
       /\ ret[c].status = "returned"
       /\ ret[c].messages = Fetched(c)
       /\ Len(listCall[c].messages) > 0 =>
             ret[c].totalResults = listCall[c].resultSizeEstimate

\* the fetch of the first of 51 listed messages failed and 50 were returned
C29_Witness ==
  \E c \in Calls :
    /\ IsSearch(c) /\ ret[c].status = "returned"
    /\ listCall[c].rejected # {}
    /\ Len(listCall[c].messages) = 51
    /\ Len(ret[c].messages) = 50
    /\ ret[c].totalResults = listCall[c].resultSizeEstimate

(***************************************************************************)
(* Claims about the metadata fetches of a search (specification SpecFetch)  *)
(***************************************************************************)
\* the number of fetch batches of the search
FetchBatches == (Len(fetch.messages) + 49) \div 50

\* C30: the fetches of one batch of at most 50 ids go out together and are
\* in flight at the same time; a fetch of the next batch goes out only when
\* no fetch of the batch before is in flight any more and the pacing sleep
\* after it is over; there is one pacing sleep between two successive
\* batches and none after the last.
C30_FetchBatchesPaced ==
  /\ [][fetch'.inFlight \ fetch.inFlight # {} =>
          /\ fetch.inFlight = {}
          /\ fetch.pc \in {"idle", "pacing"}
          /\ fetch'.inFlight = Range(SubSeq(fetch.messages', fetch'.i + 1,
                                            Min(fetch'.i + 50, Len(fetch'.messages))))
          /\ fetch'.paces = fetch'.i \div 50]_vars
  /\ [](/\ Cardinality(fetch.inFlight) <= 50
        /\ fetch.pc = "pacing" =>
             /\ fetch.inFlight = {}
             /\ fetch.i + 50 < Len(fetch.messages)
             /\ fetch.paces = fetch.i \div 50 + 1
        /\ fetch.pc = "done" =>
             /\ fetch.inFlight = {}
             /\ fetch.paces = IF FetchBatches = 0 THEN 0 ELSE FetchBatches - 1)

\* the three fetches of a second batch are in flight, after one pacing sleep
C30_Witness ==
  /\ fetch.pc = "awaiting"
  /\ fetch.i = 50
  /\ Cardinality(fetch.inFlight) = 3
  /\ fetch.paces = 1

(***************************************************************************)
(* Claims about the unsubscribe scan (specification SpecScan)               *)
(***************************************************************************)
\* the List-Unsubscribe header values of the fetched items, in order
ScannedValues ==
  LET Has(p) == p # None /\ \E k \in 1..Len(p[1]) :
                               p[1][k].name \in {"List-Unsubscribe", "list-unsubscribe"}
      Value(p) == LET k == CHOOSE k \in 1..Len(p[1]) :
                              p[1][k].name \in {"List-Unsubscribe", "list-unsubscribe"}
                  IN p[1][k].value
      with == SelectSeq(scan.payloads, Has)
  IN [k \in 1..Len(with) |-> Value(with[k])]

\* the <url> tokens of the scanned header values, in order of appearance
UrlTokens ==
  LET IsUrl(t) == t.bracketed /\ t.url.scheme \in {"http", "https"}
  IN SelectSeq(Flatten(ScannedValues), IsUrl)

\* where a URL first appears among the <url> tokens
FirstAt(url) == CHOOSE k \in 1..Len(UrlTokens) :
                  UrlTokens[k].url = url /\ \A j \in 1..(k - 1) : UrlTokens[j].url # url

\* C31: a scan that returns gives one link, of origin header, for every
\* distinct URL that stands as a <url> token in the List-Unsubscribe headers
\* of the fetched items, and no other link; no two links have the same url,
\* and the links stand in the order in which their URLs first appear.
C31_ScanLinksUnique ==
  scan.status = "returned" =>
    /\ {scan.links[k].url : k \in 1..Len(scan.links)} = {t.url : t \in Range(UrlTokens)}
    /\ \A k \in 1..Len(scan.links) : scan.links[k].source = "header"
    /\ \A j, k \in 1..Len(scan.links) :
         /\ j # k => scan.links[j].url # scan.links[k].url
         /\ j < k => FirstAt(scan.links[j].url) < FirstAt(scan.links[k].url)

\* one URL stands twice in the header of the first item and again in the
\* second item, with another URL in between
C31_Witness ==
  /\ scan.status = "returned"
  /\ Len(scan.payloads) = 2
  /\ Len(UrlTokens) = 4
  /\ UrlTokens[1].url = UrlTokens[2].url
  /\ UrlTokens[3].url # UrlTokens[1].url
  /\ UrlTokens[4].url = UrlTokens[1].url
  /\ Len(scan.links) = 2

(***************************************************************************)
(* Claims about what a redemption deletes (specification Spec)              *)
(***************************************************************************)
\* the redemption c has handed all its batches to batchDelete
RedemptionOver(c) ==
  /\ IsConfirm(c)
  /\ TokenOf(c) \in DOMAIN tickets
  /\ \/ pc[c] = "batch_done"
     \/ pc[c] = "done" /\ ret[c].status = "returned"

\* C32: a redemption hands to batchDelete the ids that were bound into its
\* ticket when the ticket was issued, in that order, in ceil(N/50) batches,
\* whatever has happened to the mailbox since; while it runs, what it has
\* handed over so far is a prefix of the ticket's ids.
C32_RedemptionDeletesTicketIds ==
  \A c \in Calls :
    /\ (IsConfirm(c) /\ TokenOf(c) \in DOMAIN tickets /\ pc[c] = "batch") =>
         LET sofar == Flatten(submitted[c])
         IN /\ Len(sofar) <= Len(tickets[TokenOf(c)].messageIds)
            /\ sofar = SubSeq(tickets[TokenOf(c)].messageIds, 1, Len(sofar))
    /\ RedemptionOver(c) =>
         /\ Flatten(submitted[c]) = tickets[TokenOf(c)].messageIds
         /\ Len(submitted[c]) = (Len(tickets[TokenOf(c)].messageIds) + 49) \div 50

\* a redemption handed over the 51 ids of its ticket in two batches although
\* another redemption of the same ticket had emptied the mailbox of them
C32_Witness ==
  \E c, d \in Calls :
    /\ c # d
    /\ RedemptionOver(c) /\ RedemptionOver(d)
    /\ TokenOf(c) = TokenOf(d)
    /\ Len(submitted[c]) = 2
    /\ Len(tickets[TokenOf(c)].messageIds) = 51
    /\ Range(tickets[TokenOf(c)].messageIds) \cap Range(mailbox) = {}

(***************************************************************************)
(* Claims about the client's gateway requests (specification SpecGateway)   *)
(***************************************************************************)
\* C33: every request the client makes to the gateway, whatever its call
\* site, is made as the retry executor makes it: a first answer that is a
\* transient failure is followed by another invocation, and the caller sees
\* what retryWithBackoff returns for the operation.
C33_EveryGatewayCallRetried ==
  gatewayCall.ran =>
    /\ Transient(Answer(gatewayCall.script, 1)) => gatewayCall.result.invocations >= 2
    /\ gatewayCall.result = retryWithBackoff(gatewayCall.script)

(***************************************************************************)
(* Claims about the order of waits and invocations (specification SpecRetry) *)
(***************************************************************************)
\* what the run of retryWithBackoff did, in order
RetryTrace == RetryEvents(retry.result, 0, 1)

\* C34: every backoff wait of the retry executor is followed by another
\* invocation of the operation; when the last permitted invocation fails
\* transiently the failure is returned with no wait after it, so a run of
\* maxRetries + 1 transient failures makes maxRetries waits.
C34_WaitOnlyBeforeRetry ==
  retry.ran =>
    /\ \A k \in 1..Len(RetryTrace) :
         RetryTrace[k].kind = "backoff" =>
           k < Len(RetryTrace) /\ RetryTrace[k + 1].kind = "invoke"
    /\ (\A k \in 1..(retry.maxRetries + 1) : Transient(Answered(k))) =>
         Len(retry.result.waits) = retry.maxRetries

(***************************************************************************)
(* Claims about the ids of a delete run (specification SpecBatch)           *)
(***************************************************************************)
\* C35: every id a deleteEmails call hands to batchDelete is one of the ids
\* the list request of that same call returned, and no id is handed over
\* twice in one run, whether or not a batch fails.
C35_DeletesOnlyOwnMatches ==
  \A c \in Calls :
    req[c].kind \in {"delete", "tool"} =>
      LET ids == Flatten(submitted[c])
      IN /\ Range(ids) \subseteq Range(listCall[c].messages)
         /\ Cardinality(Range(ids)) = Len(ids)

\* a run of two batches, one of them failed, over a list response one id of
\* which was not fetched
C35_Witness ==
  \E c \in Calls :
    /\ req[c].kind = "delete"
    /\ pc[c] = "batch_done"
    /\ Len(submitted[c]) = 2
    /\ batch[c].failedCount > 0
    /\ batch[c].deletedCount > 0
    /\ listCall[c].rejected # {}
    /\ Range(Flatten(submitted[c])) # Range(listCall[c].messages)

(***************************************************************************)
(* Claims about the deletion limit (specification SpecCap)                  *)
(***************************************************************************)
\* the maxDeletions the delete request of invocation c runs with
MaxDeletionsOf(c) == DeleteParams(ClientArgs(req[c])).maxDeletions

\* C36: whatever maxDeletions is, from 0 to the cap of the list request and
\* above, the ids one delete request hands to batchDelete, all batches taken
\* together, number at most maxDeletions, and so do the ids bound into a
\* ticket, for the maxDeletions of the dry run that issued it.
C36_AtMostMaxDeletions ==
  /\ \A c \in Calls :
       req[c].kind \in {"delete", "tool"} =>
         Len(Flatten(submitted[c])) <= MaxDeletionsOf(c)
  /\ \A t \in DOMAIN tickets :
       \A c \in Calls :
         (req[c].kind \in {"delete", "tool"} /\ ret[c].confirmationToken = Some(t)) =>
           Len(tickets[t].messageIds) <= MaxDeletionsOf(c)

\* with maxDeletions 500 a dry run bound 500 ids into its ticket and a delete
\* handed over 500 ids in ten batches, and an id the filter matches is left
C36_Witness ==
  /\ req[1].kind = "delete" /\ MaxDeletionsOf(1) = 500
  /\ ret[1].confirmationToken # None
  /\ \E t \in DOMAIN tickets : Len(tickets[t].messageIds) = 500
  /\ req[2].kind = "delete" /\ MaxDeletionsOf(2) = 500
  /\ pc[2] = "batch_done"
  /\ Len(submitted[2]) = 10
  /\ Len(Flatten(submitted[2])) = 500
  /\ \E id \in Range(mailbox) : id \notin SpamTrashIds

(***************************************************************************)
(* Claims about the limit check of deleteEmails (specification Spec)        *)
(***************************************************************************)
\* C37: a deleteEmails call whose list request returned more ids than
\* maxDeletions fails: it hands nothing to batchDelete and issues no ticket,
\* also when some of the listed ids' metadata fetches were rejected.
C37_LimitCheckOnListedIds ==
  \A c \in Calls :
    (/\ req[c].kind \in {"delete", "tool"}
     /\ listCall[c].answered
     /\ Len(listCall[c].messages) > MaxDeletionsOf(c)) =>
       /\ submitted[c] = <<>>
       /\ pc[c] \notin {"batch", "batch_done"}
       /\ ret[c].confirmationToken = None
       /\ pc[c] = "done" => ret[c].status = "threw"

(***************************************************************************)
(* Claims about the audit record of a delete (specification SpecTool)       *)
(***************************************************************************)
\* the step in which the deleteEmails call of invocation c ends
DeleteEnds(c) ==
  /\ req'[c].kind \in {"delete", "tool"}
  /\ pc[c] # "done" /\ pc'[c] = "done"
  /\ ret'[c].status # "none"

\* the records the step pushes onto operationLogs
Pushed == SubSeq(operationLogs', Len(operationLogs) + 1, Len(operationLogs'))

\* C38: the audit record of a deleteEmails call tells its outcome.  When the
\* call returns from an executed delete there is one record, whose success is
\* true exactly when failedCount = 0 and whose count is deletedCount; when
\* it returns from a dry run there is one record, with success true and the
\* number of matched ids as count; when it fails after its search failed or
\* found too many, or for another failure inside its try block, every
\* record it leaves has success false and an error; and dryRun in the
\* record is the dryRun of the request.
C38_AuditRecordTellsOutcome ==
  [][\A c \in Calls :
       DeleteEnds(c) =>
         LET p == DeleteParams(ClientArgs(req'[c]))
             result == ret'[c]
         IN /\ \A k \in 1..Len(Pushed) :
                 /\ Pushed[k].operation = "delete"
                 /\ Pushed[k].query = p.query
                 /\ Pushed[k].dryRun = p.dryRun
            /\ (result.status = "returned" /\ ~p.dryRun) =>
                 /\ Len(Pushed) = 1
                 /\ Pushed[1].success = (result.failedCount = 0)
                 /\ Pushed[1].count = Some(result.deletedCount)
            /\ (result.status = "returned" /\ p.dryRun) =>
                 /\ Len(Pushed) = 1
                 /\ Pushed[1].success
                 /\ result.confirmationToken # None
                 /\ Pushed[1].count =
                      Some(Len(tickets'[result.confirmationToken[1]].messageIds))
                 /\ Pushed[1].count =
                      Some(Len(listCall'[c].messages) - Cardinality(listCall'[c].rejected))
            /\ (result.status = "threw" /\ result.error # "Token refresh failed") =>
                 /\ Len(Pushed) >= 1
                 /\ \A k \in 1..Len(Pushed) : ~Pushed[k].success /\ Pushed[k].error # None]_vars

\* an executed delete of two batches, one deleted and one failed, has returned
\* and its record tells of a failure with the count of the deleted ids
C38_Witness ==
  \E c \in Calls :
    /\ req[c].kind \in {"delete", "tool"}
    /\ pc[c] = "done"
    /\ ret[c].status = "returned"
    /\ ret[c].failedCount > 0
    /\ ret[c].deletedCount > 0
    /\ Len(operationLogs) >= 1
    /\ ~operationLogs[Len(operationLogs)].success
    /\ ~operationLogs[Len(operationLogs)].dryRun
    /\ operationLogs[Len(operationLogs)].count = Some(ret[c].deletedCount)
    /\ operationLogs[Len(operationLogs)].error = None

(***************************************************************************)
(* Claims about tickets of failed dry runs (specification SpecTool)         *)
(***************************************************************************)
\* C39: a deleteEmails call that throws leaves the ticket store as it was,
\* whether it fails in its search, in its limit check or in writing its
\* audit record: no ticket of a failed dry run stays in the store.
C39_FailedCallLeavesNoTicket ==
  [][\A c \in Calls :
       (DeleteEnds(c) /\ ret'[c].status = "threw") =>
          confirmationTokens' = confirmationTokens]_vars

====
